---- MODULE Spec2Model ----
(***************************************************************************)
(* A model of the numeric core of voxel-engine: the 48-bit integer i48     *)
(* (voxel-maths/src/i48_int.rs), the fixed-point types Fract and           *)
(* FixedPoint (voxel-maths/src/fixed_point.rs) and the coordinate types    *)
(* built on them (voxel-engine/src/game_state/coords.rs).                  *)
(*                                                                         *)
(* The program computes on 16, 64 and 128 bit machine integers.  A value   *)
(* of any of these types is held here as a mathematical integer, written   *)
(* in two's complement as a little-endian tuple of ZLimbs limbs of 16 bits *)
(* each, wide enough that no operation of the program overflows the        *)
(* tuple; a machine operation is the exact operation followed by the wrap  *)
(* of its type (Low, SExt), so every width of the program is kept.         *)
(***************************************************************************)
EXTENDS Integers, Sequences, FiniteSets, TLC

\* Limbs per integer: 160 bits, more than the widest type (u128) needs.
ZLimbs == 10

\* The limb base.
B == 2 ^ 16

HalfB == 2 ^ 15

(***************************************************************************)
(* Wide integers.                                                          *)
(***************************************************************************)
\* n limbs v
Rep(v, n) == SubSeq([i \in 1..n |-> v], 1, n)

ZZero == Rep(0, ZLimbs)

IsNeg(a) == a[ZLimbs] >= HalfB

RECURSIVE AddC(_, _, _, _)
AddC(a, b, i, c) ==
    IF i > ZLimbs THEN <<>>
    ELSE LET s == a[i] + b[i] + c
         IN  <<s % B>> \o AddC(a, b, i + 1, s \div B)

\* !a on the whole tuple
ZNot(a) == SubSeq([i \in 1..ZLimbs |-> (B - 1) - a[i]], 1, ZLimbs)

ZAdd(a, b) == AddC(a, b, 1, 0)

ZSub(a, b) == AddC(a, ZNot(b), 1, 1)

ZNeg(a) == AddC(ZZero, ZNot(a), 1, 1)

ZAbs(a) == IF IsNeg(a) THEN ZNeg(a) ELSE a

\* unsigned comparison, from the most significant limb down
RECURSIVE ULessFrom(_, _, _)
ULessFrom(a, b, i) ==
    IF i = 0 THEN FALSE
    ELSE IF a[i] # b[i] THEN a[i] < b[i]
    ELSE ULessFrom(a, b, i - 1)

\* signed comparison: integers below 2^64 in size differ in their low 4 limbs
ZLess(a, b) ==
    IF IsNeg(a) # IsNeg(b) THEN IsNeg(a)
    ELSE IF SubSeq(a, 5, ZLimbs) = SubSeq(b, 5, ZLimbs) THEN ULessFrom(a, b, 4)
    ELSE ULessFrom(a, b, ZLimbs)

ZLeq(a, b) == ~ZLess(b, a)

\* a small integer (|k| < 2^31) as a wide integer: its two low limbs and the
\* sign above them
Z(k) ==
    <<k % B, (k \div B) % B>> \o Rep(IF k < 0 THEN B - 1 ELSE 0, ZLimbs - 2)

\* 2^n
Pow2(n) == Rep(0, n \div 16) \o <<2 ^ (n % 16)>> \o Rep(0, ZLimbs - 1 - (n \div 16))

\* 2^n - 1: the low n bits set
Ones(n) ==
    Rep(B - 1, n \div 16) \o <<2 ^ (n % 16) - 1>> \o Rep(0, ZLimbs - 1 - (n \div 16))

\* -2^n: the low n bits clear, all the bits above set
NegPow2(n) ==
    Rep(0, n \div 16) \o <<B - 2 ^ (n % 16)>> \o Rep(B - 1, ZLimbs - 1 - (n \div 16))

\* a mod 2^(16 n): an "as uN" cast, or a mask of the low 16 n bits
Low(a, n) == SubSeq(a, 1, n) \o Rep(0, ZLimbs - n)

\* the low 16 n bits of a read as a signed integer: an "as iN" cast
SExt(a, n) ==
    SubSeq(a, 1, n) \o Rep(IF a[n] >= HalfB THEN B - 1 ELSE 0, ZLimbs - n)

\* a * 2^(16 k)
ShlLimbs(a, k) == Rep(0, k) \o SubSeq(a, 1, ZLimbs - k)

\* floor(a / 2^(16 k))
ShrLimbs(a, k) ==
    SubSeq(a, k + 1, ZLimbs) \o Rep(IF IsNeg(a) THEN B - 1 ELSE 0, k)

\* a * e for a >= 0 and a small factor 0 <= e < 2^15
RECURSIVE MulSmallC(_, _, _, _)
MulSmallC(a, e, i, c) ==
    IF i > ZLimbs THEN <<>>
    ELSE LET s == a[i] * e + c
         IN  <<s % B>> \o MulSmallC(a, e, i + 1, s \div B)

MulSmall(a, e) == MulSmallC(a, e, 1, 0)

\* a * b for a, b >= 0: one row per byte of b, from the most significant
\* (the test on acc has TLC evaluate each row's sum before the next row)
RECURSIVE MulRows(_, _, _, _)
MulRows(a, b, i, acc) ==
    IF i = 0 \/ Len(acc) # ZLimbs THEN acc
    ELSE LET hi == b[i] \div 256
             lo == b[i] % 256
             r1 == ZAdd(MulSmall(acc, 256), MulSmall(a, hi))
             r0 == ZAdd(MulSmall(r1, 256), MulSmall(a, lo))
         IN  MulRows(a, b, i - 1, IF b[i] = 0 THEN ShlLimbs(acc, 1) ELSE r0)

RECURSIVE TopLimb(_, _)
TopLimb(a, i) == IF i = 0 THEN 0 ELSE IF a[i] # 0 THEN i ELSE TopLimb(a, i - 1)

UMul(a, b) == MulRows(a, b, TopLimb(b, ZLimbs), ZZero)

ZMul(a, b) ==
    LET m == UMul(ZAbs(a), ZAbs(b))
    IN  IF IsNeg(a) # IsNeg(b) THEN ZNeg(m) ELSE m

\* bit k (0-based) of limb value v
BitOf(v, k) == (v \div (2 ^ k)) % 2

\* a - b for a >= b >= 0, limb by limb with a borrow
RECURSIVE SubB(_, _, _, _)
SubB(a, b, i, br) ==
    IF i > ZLimbs THEN <<>>
    ELSE LET d == a[i] - b[i] - br
         IN  <<d % B>> \o SubB(a, b, i + 1, IF d < 0 THEN 1 ELSE 0)

\* restoring division, one limb v of the dividend: bit k down to bit 0 are
\* brought into the remainder r (r < b), qd collects the quotient's bits;
\* the result is <<quotient limb, remainder>>
RECURSIVE DivLimb(_, _, _, _, _)
DivLimb(r, b, v, k, qd) ==
    IF k < 0 THEN <<qd, r>>
    ELSE LET r2 == AddC(r, r, 1, BitOf(v, k))
         IN  IF ULessFrom(r2, b, ZLimbs)
             THEN DivLimb(r2, b, v, k - 1, 2 * qd)
             ELSE DivLimb(SubB(r2, b, 1, 0), b, v, k - 1, 2 * qd + 1)

\* the limbs i, i - 1, .. 1 of the dividend a; qs are the quotient's limbs
\* found so far
\* (the test on r has TLC evaluate each remainder before the next limb)
RECURSIVE DivLimbs(_, _, _, _, _)
DivLimbs(a, b, i, r, qs) ==
    IF i = 0 \/ Len(r) # ZLimbs THEN <<qs \o Rep(0, ZLimbs - Len(qs)), r>>
    ELSE LET d == DivLimb(r, b, a[i], 15, 0)
         IN  DivLimbs(a, b, i - 1, d[2], <<d[1]>> \o qs)

\* <<a div b, a mod b>> for a >= 0, b > 0: the limbs of a above the low
\* ta - tb + 1 are less than b and start the remainder
\* a divisor 2^(16 k) takes the low k limbs off
UDivMod(a, b) ==
    LET ta == TopLimb(a, ZLimbs)
        tb == TopLimb(b, ZLimbs)
    IN  IF ta < tb THEN <<ZZero, a>>
        ELSE IF b = ShlLimbs(Z(1), tb - 1)
        THEN <<ShrLimbs(a, tb - 1), Low(a, tb - 1)>>
        ELSE DivLimbs(a, b, ta - tb + 1, ShrLimbs(a, ta - tb + 1), <<>>)

\* quotient truncated toward zero and the remainder with the dividend's sign
SignedQuot(a, b, q) == IF IsNeg(a) # IsNeg(b) THEN ZNeg(q) ELSE q

ZQuot(a, b) == SignedQuot(a, b, UDivMod(ZAbs(a), ZAbs(b))[1])

SignedRem(a, r) == IF IsNeg(a) THEN ZNeg(r) ELSE r

ZRem(a, b) == SignedRem(a, UDivMod(ZAbs(a), ZAbs(b))[2])

\* floor(sqrt(a)) for a >= 0, bit by bit from bit k down
RECURSIVE SqrtBits(_, _, _)
SqrtBits(a, k, r) ==
    IF k < 0 THEN r
    ELSE LET c == ZAdd(r, Pow2(k))
         IN  IF ZLeq(UMul(c, c), a) THEN SqrtBits(a, k - 1, c)
             ELSE SqrtBits(a, k - 1, r)

ZSqrt(a) == SqrtBits(a, 8 * TopLimb(a, ZLimbs), ZZero)

\* a & m on one limb, for m a limb of a mask
RECURSIVE LimbAnd(_, _, _)
LimbAnd(u, m, k) ==
    IF k = 0 THEN 0
    ELSE (u % 2) * (m % 2) + 2 * LimbAnd(u \div 2, m \div 2, k - 1)

RECURSIVE AndFrom(_, _, _)
AndFrom(a, m, i) ==
    IF i > ZLimbs THEN <<>>
    ELSE <<IF m[i] = 0 THEN 0
           ELSE IF m[i] = B - 1 THEN a[i]
           ELSE LimbAnd(a[i], m[i], 16)>> \o AndFrom(a, m, i + 1)

ZAnd(a, m) == AndFrom(a, m, 1)

(***************************************************************************)
(* Results of calls: Option and Result values, a plain value, a panic      *)
(* (the process aborts) and undefined behaviour.                           *)
(***************************************************************************)
Some(v) == [tag |-> "Some", val |-> v]

None == [tag |-> "None", val |-> ZZero]

Ok(v) == [tag |-> "Ok", val |-> v]

Err == [tag |-> "Err", val |-> ZZero]

Val(v) == [tag |-> "Val", val |-> v]

Panic == [tag |-> "Panic", val |-> ZZero]

UB == [tag |-> "UB", val |-> ZZero]

\* r.expect(..) / r.unwrap()
expect(r) == IF r.tag = "Some" THEN Val(r.val) ELSE Panic

(***************************************************************************)
(* The machine integer types the program uses (Rust's primitive types).    *)
(***************************************************************************)
\* the width in limbs and the signedness of a primitive type
IntTypes ==
    [i8    |-> [bits |-> 8,   signed |-> TRUE],
     i16   |-> [bits |-> 16,  signed |-> TRUE],
     i32   |-> [bits |-> 32,  signed |-> TRUE],
     i64   |-> [bits |-> 64,  signed |-> TRUE],
     i128  |-> [bits |-> 128, signed |-> TRUE],
     isize |-> [bits |-> 64,  signed |-> TRUE],
     u8    |-> [bits |-> 8,   signed |-> FALSE],
     u16   |-> [bits |-> 16,  signed |-> FALSE],
     u32   |-> [bits |-> 32,  signed |-> FALSE],
     u64   |-> [bits |-> 64,  signed |-> FALSE],
     u128  |-> [bits |-> 128, signed |-> FALSE],
     usize |-> [bits |-> 64,  signed |-> FALSE]]

\* <ty>::MIN: -2^(bits - 1) or 0
TyMin(ty) == IF IntTypes[ty].signed THEN NegPow2(IntTypes[ty].bits - 1) ELSE ZZero

\* <ty>::MAX: 2^(bits - 1) - 1 or 2^bits - 1
TyMax(ty) ==
    IF IntTypes[ty].signed THEN Ones(IntTypes[ty].bits - 1)
    ELSE Ones(IntTypes[ty].bits)

InType(v, ty) == ZLeq(TyMin(ty), v) /\ ZLeq(v, TyMax(ty))

I64MIN == TyMin("i64")

I64MAX == TyMax("i64")

\* v as i64, v as u64 (of a value of a type at least as wide: the low 64 bits)
AsI64(v) == SExt(v, 4)

AsU64(v) == Low(v, 4)

\* v as ty, for a type of 64 or 128 bits
AsTy(v, ty) ==
    IF IntTypes[ty].signed THEN SExt(v, IntTypes[ty].bits \div 16)
    ELSE Low(v, IntTypes[ty].bits \div 16)

\* the native i64 operations the i48 macros call by name
I64Quot(x, y) == ZQuot(x, y)

I64Rem(x, y) == ZRem(x, y)

\* i64::div_euclid and i64::rem_euclid, for y # 0 and no overflow
\* the truncated quotient q, moved one away from zero when the dividend is
\* negative and the remainder r of the magnitudes is not 0
EuclidAdjust(x, y, q, r) ==
    IF IsNeg(x) /\ r # ZZero
    THEN IF ZLess(ZZero, y) THEN ZSub(q, Z(1)) ELSE ZAdd(q, Z(1))
    ELSE q

I64DivEuclidOf(x, y, qr) == EuclidAdjust(x, y, SignedQuot(x, y, qr[1]), qr[2])

I64DivEuclid(x, y) == I64DivEuclidOf(x, y, UDivMod(ZAbs(x), ZAbs(y)))

\* the truncated remainder r, plus |y| when it is negative
NonNegRem(r, y) == IF IsNeg(r) THEN AsI64(ZAdd(r, AsI64(ZAbs(y)))) ELSE r

I64RemEuclid(x, y) == NonNegRem(ZRem(x, y), y)

I64Exact(name, x, y) ==
    CASE name = "add" -> ZAdd(x, y)
      [] name = "sub" -> ZSub(x, y)
      [] name = "mul" -> ZMul(x, y)
      [] name = "div" -> I64Quot(x, y)
      [] name = "div_euclid" -> I64DivEuclid(x, y)
      [] name = "rem" -> I64Rem(x, y)
      [] name = "rem_euclid" -> I64RemEuclid(x, y)

IsDivision(name) == name \in {"div", "div_euclid", "rem", "rem_euclid"}

\* the exact result r when the type holds it
IfInType(r, ty) == IF InType(r, ty) THEN Some(r) ELSE None

\* i64::checked_<name>(x, y)
I64Checked(name, x, y) ==
    IF IsDivision(name)
    THEN IF y = ZZero \/ (x = I64MIN /\ y = Z(-1)) THEN None
         ELSE Some(I64Exact(name, x, y))
    ELSE IfInType(I64Exact(name, x, y), "i64")

\* i64::wrapping_<name>(x, y): the division forms panic on a zero divisor
I64Wrapping(name, x, y) ==
    IF IsDivision(name)
    THEN IF y = ZZero THEN Panic
         ELSE IF x = I64MIN /\ y = Z(-1)
              THEN Val(IF name \in {"div", "div_euclid"} THEN I64MIN ELSE ZZero)
              ELSE Val(I64Exact(name, x, y))
    ELSE Val(AsI64(I64Exact(name, x, y)))

\* i64::checked_abs, checked_neg, checked_isqrt
I64CheckedUn(name, x) ==
    CASE name = "abs" -> IF x = I64MIN THEN None ELSE Some(ZAbs(x))
      [] name = "neg" -> IF x = I64MIN THEN None ELSE Some(ZNeg(x))
      [] name = "isqrt" -> IF IsNeg(x) THEN None ELSE Some(ZSqrt(x))

\* i64::wrapping_abs
I64WrappingAbs(x) == AsI64(ZAbs(x))

(***************************************************************************)
(* i48 (voxel-maths/src/i48_int.rs).  An i48 is held as the 64-bit word    *)
(* its Repr is stored as (to_bits), an integer in 0 .. 2^64 - 1.           *)
(***************************************************************************)
BITS == 48

\* MASK: 0x0000_FFFF_FFFF_FFFF
MASK == Ones(48)

\* MAX: 2_i64.pow(i48::BITS - 1) - 1
MAX == Ones(BITS - 1)

\* MIN: -2_i64.pow(i48::BITS - 1)
MIN == NegPow2(BITS - 1)

\* Repr::hint_bits_good: assert_unchecked, undefined behaviour when violated
hint_bits_good(x) == IF ZAnd(x, MASK) = x /\ ZLeq(x, MASK) THEN Val(x) ELSE UB

\* Repr::from_bits_unchecked: the transmute of the hinted word
Repr_from_bits_unchecked(x) == hint_bits_good(x)

\* Repr::from_bits
Repr_from_bits(x) ==
    IF ZLess(MASK, x) THEN None
    ELSE LET r == Repr_from_bits_unchecked(x)
         IN  IF r.tag = "Val" THEN Some(r.val) ELSE r

\* a from_bits_wrapping that stores the word without masking it
Repr_from_bits_wrapping_unmasked(x) == Val(x)

\* Repr::from_bits_wrapping
Repr_from_bits_wrapping(x) == Repr_from_bits_unchecked(ZAnd(x, MASK))

\* Repr::to_bits: the word itself (bytemuck::must_cast); the hint it passes
\* through hint_bits_good holds of every word the program makes (WordsGood)
Repr_to_bits(self) == self

\* i48::to_bits
to_bits(self) == Repr_to_bits(self)

\* Repr::as_i64: ((bits << 16) as i64) >> 16
as_i64(self) == ShrLimbs(AsI64(Low(ShlLimbs(to_bits(self), 1), 4)), 1)

\* i48::from_bits
from_bits(x) == Repr_from_bits(x)

\* i48::from_bits_unchecked
from_bits_unchecked(dbg, x) ==
    IF dbg THEN expect(from_bits(x)) ELSE Repr_from_bits_unchecked(x)

\* i48::from_bits_wrapping
from_bits_wrapping(x) == Repr_from_bits_wrapping(x).val

\* a new_wrapping that clamps to the range in place of wrapping
new_wrapping_saturating(x) ==
    from_bits_wrapping(AsU64(IF ZLess(MAX, x) THEN MAX
                             ELSE IF ZLess(x, MIN) THEN MIN ELSE x))

\* i48::new_wrapping
new_wrapping(x) == from_bits_wrapping(AsU64(x))

\* i48::new_unchecked
new_unchecked(x) ==
    IF ZLeq(x, MAX) /\ ZLeq(MIN, x) THEN Val(new_wrapping(x)) ELSE UB

\* Some(v) of a returned v
AsSome(r) == IF r.tag = "Val" THEN Some(r.val) ELSE r

\* a new whose upper bound is exclusive
new_exclusive(x) ==
    IF ZLeq(MAX, x) \/ ZLess(x, MIN) THEN None
    ELSE LET r == new_unchecked(x)
         IN  IF r.tag = "Val" THEN Some(r.val) ELSE r

\* i48::new
new(x) ==
    IF ZLess(MAX, x) \/ ZLess(x, MIN) THEN None
    ELSE AsSome(new_unchecked(x))

\* match r { Some(x) => Self::new(x), None => None }
ThenNew(r) == IF r.tag = "Some" THEN new(r.val) ELSE None

\* Self::new_wrapping of what the i64 operation returned
ThenNewWrapping(r) == IF r.tag = "Val" THEN Val(new_wrapping(r.val)) ELSE r

CheckedBinops == {"add", "sub", "mul", "div", "div_euclid", "rem", "rem_euclid"}

CheckedUnops == {"abs", "neg", "isqrt"}

\* a checked operation that wraps its result in place of refusing it
impl_checked_binop_wrapping(name, self, rhs) ==
    LET r == I64Checked(name, as_i64(self), as_i64(rhs))
    IN  IF r.tag = "Some" THEN Some(new_wrapping(r.val)) ELSE None

\* impl_checked_binop!: i48::checked_<name>(self, rhs)
impl_checked_binop(name, self, rhs) ==
    ThenNew(I64Checked(name, as_i64(self), as_i64(rhs)))

\* impl_checked_unop!: i48::checked_<name>(self)
impl_checked_unop(name, self) ==
    ThenNew(I64CheckedUn(name, as_i64(self)))

\* a wrapping operation that clamps its result to the range in place of
\* reducing it
impl_wrapping_binop_saturating(name, self, rhs) ==
    LET r == I64Wrapping(name, as_i64(self), as_i64(rhs))
    IN  IF r.tag = "Val" THEN Val(new_wrapping_saturating(r.val)) ELSE r

\* impl_wrapping_binop!: i48::wrapping_<name>(self, rhs)
impl_wrapping_binop(name, self, rhs) ==
    ThenNewWrapping(I64Wrapping(name, as_i64(self), as_i64(rhs)))

\* impl_wrapping_unop!: i48::wrapping_abs(self)
wrapping_abs(self) == Val(new_wrapping(I64WrappingAbs(as_i64(self))))

\* u64 addition: with overflow checks (a debug build) an overflow panics,
\* without them it wraps
U64Add(dbg, x, y) ==
    LET s == ZAdd(x, y)
    IN  IF InType(s, "u64") THEN Val(s)
        ELSE IF dbg THEN Panic ELSE Val(AsU64(s))

\* !x on a u64
U64Not(x) == AsU64(ZNot(x))

\* i48::wrapping_neg: from_bits_wrapping((!self.to_bits()) + 1)
wrapping_neg(dbg, self) ==
    LET s == U64Add(dbg, U64Not(to_bits(self)), Z(1))
    IN  IF s.tag = "Val" THEN Val(from_bits_wrapping(s.val)) ELSE s

\* lossless_signed_from!: From<i8 | i16 | i32>
lossless_signed_from(value) == new_unchecked(AsI64(value))

\* lossless_unsigned_from!: From<u8 | u16 | u32>
lossless_unsigned_from(dbg, value) == from_bits_unchecked(dbg, AsU64(value))

\* lossy_signed_from!: TryFrom<i64 | i128 | isize>
lossy_signed_from(ty, value) ==
    IF ZLess(AsTy(MAX, ty), value) \/ ZLess(value, AsTy(MIN, ty)) THEN Err
    ELSE LET r == new_unchecked(AsI64(value))
         IN  IF r.tag = "Val" THEN Ok(r.val) ELSE r

\* a conversion that truncates in place of refusing
lossy_unsigned_from_truncating(dbg, ty, value) ==
    Ok(from_bits_wrapping(AsU64(value)))

\* lossy_unsigned_from!: TryFrom<u64 | u128 | usize>
lossy_unsigned_from(dbg, ty, value) ==
    IF ZLess(AsTy(MAX, ty), value) THEN Err
    ELSE LET r == from_bits_unchecked(dbg, AsU64(value))
         IN  IF r.tag = "Val" THEN Ok(r.val) ELSE r

\* an operator that is checked in every build
impl_bin_op_checked(dbg, name, self, rhs) ==
    expect(impl_checked_binop(name, self, rhs))

\* impl_bin_op!: the operator <name> (Add, Sub, Mul, Div, Rem)
impl_bin_op(dbg, name, self, rhs) ==
    IF dbg THEN expect(impl_checked_binop(name, self, rhs))
    ELSE impl_wrapping_binop(name, self, rhs)

BinOps == {"add", "sub", "mul", "div", "rem"}

\* impl Not for i48
not(self) == from_bits_wrapping(U64Not(to_bits(self)))

\* impl Neg for i48
neg(dbg, self) ==
    IF dbg THEN expect(impl_checked_unop("neg", self))
    ELSE wrapping_neg(dbg, self)

\* impl PartialEq for i48
eq(self, other) == to_bits(self) = to_bits(other)

ne(self, other) == to_bits(self) # to_bits(other)

\* a less-than on the stored bit patterns
lt_bits(self, other) == ZLess(to_bits(self), to_bits(other))

\* impl PartialOrd for i48
lt(self, other) == ZLess(as_i64(self), as_i64(other))

le(self, other) == ZLeq(as_i64(self), as_i64(other))

gt(self, other) == ZLess(as_i64(other), as_i64(self))

ge(self, other) == ZLeq(as_i64(other), as_i64(self))

\* impl Ord for i48: i64::cmp of the two values
cmp(self, other) ==
    IF ZLess(as_i64(self), as_i64(other)) THEN "Less"
    ELSE IF as_i64(self) = as_i64(other) THEN "Equal" ELSE "Greater"

\* the bytes of the stored word in memory order (little-endian target):
\* Repr { data: [u8; 6], _zero0, _zero1 }
ReprBytes(self) ==
    [k \in 1..8 |-> IF k % 2 = 1 THEN self[(k + 1) \div 2] % 256
                    ELSE self[k \div 2] \div 256]

\* impl Hash for i48: state.write(&self.0.data), the bytes the hasher gets
hash(self) == SubSeq(ReprBytes(self), 1, 6)

(***************************************************************************)
(* Fract and FixedPoint (voxel-maths/src/fixed_point.rs).  A Fract is its  *)
(* u16, a FixedPoint is its raw i64 word.                                  *)
(***************************************************************************)
\* a from_raw that drops the fraction
from_raw_int_only(integer, fractional) ==
    AsI64(AsU64(ShlLimbs(to_bits(integer), 1)))

\* FixedPoint::from_raw: ((integer.to_bits() << 16) | fractional.0 as u64) as i64
\* (the shifted word has its low 16 bits clear, so the or is a sum)
from_raw(integer, fractional) ==
    AsI64(ZAdd(AsU64(ShlLimbs(to_bits(integer), 1)), fractional))

\* FixedPoint::from_int
from_int(integer) == AsI64(AsU64(ShlLimbs(to_bits(integer), 1)))

\* FixedPoint::from_fract: zero extends
from_fract(fractional) == fractional

\* FixedPoint::int: i48::from_bits_unchecked((self.0 as u64) >> 16)
int(dbg, self) == from_bits_unchecked(dbg, ShrLimbs(AsU64(self), 1))

\* FixedPoint::fract: self.0 as u16
fract(self) == Low(self, 1)

\* FixedPoint::to_raw: (self.int(), self.fract())
to_raw(dbg, self) ==
    LET i == int(dbg, self)
    IN  IF i.tag = "Val" THEN Val(<<i.val, fract(self)>>) ELSE i

\* i64::saturating_add: the sum, or on overflow the end of the range on the
\* side of the operands
I64SaturatingAdd(x, y) ==
    LET r == ZAdd(x, y)
    IN  IF InType(r, "i64") THEN r
        ELSE IF IsNeg(x) THEN I64MIN ELSE I64MAX

\* i64::saturating_sub
I64SaturatingSub(x, y) ==
    LET r == ZSub(x, y)
    IN  IF InType(r, "i64") THEN r
        ELSE IF IsNeg(x) THEN I64MIN ELSE I64MAX

\* an addition that wraps
FixedPoint_add_wrapping(self, rhs) == AsI64(ZAdd(self, rhs))

\* impl Add for FixedPoint: Self(self.0.saturating_add(rhs.0))
FixedPoint_add(self, rhs) == I64SaturatingAdd(self, rhs)

\* impl AddAssign for FixedPoint: *self = (*self) + rhs; the new *self
FixedPoint_add_assign(self, rhs) == FixedPoint_add(self, rhs)

\* impl Sub for FixedPoint: Self(self.0.saturating_sub(rhs.0))
FixedPoint_sub(self, rhs) == I64SaturatingSub(self, rhs)

\* impl SubAssign for FixedPoint: *self = (*self) - rhs; the new *self
FixedPoint_sub_assign(self, rhs) == FixedPoint_sub(self, rhs)

\* a less-than on the raw words read as unsigned
FixedPoint_lt_unsigned(self, other) == ZLess(AsU64(self), AsU64(other))

\* impl_cmp!(FixedPoint), PartialOrd: self.0 < other.0 and the like, on the i64
FixedPoint_lt(self, other) == ZLess(self, other)

FixedPoint_le(self, other) == ZLeq(self, other)

FixedPoint_gt(self, other) == ZLess(other, self)

FixedPoint_ge(self, other) == ZLeq(other, self)

\* impl_cmp!(FixedPoint), Ord: Ord::cmp(&self.0, &other.0)
FixedPoint_cmp(self, other) ==
    IF ZLess(self, other) THEN "Less"
    ELSE IF self = other THEN "Equal" ELSE "Greater"

\* derive(PartialEq) on FixedPoint(i64)
FixedPoint_eq(self, other) == self = other

\* FRACTIONAL_SCALE: 1 << 16
FRACTIONAL_SCALE == Pow2(16)

\* x * y on i128: with overflow checks an overflow panics, without them it wraps
I128Mul(dbg, x, y) ==
    LET p == ZMul(x, y)
    IN  IF InType(p, "i128") THEN Val(p)
        ELSE IF dbg THEN Panic ELSE Val(SExt(p, 8))

\* a multiplication that rounds the rescaled product down
FixedPoint_mul_floor(dbg, self, rhs) ==
    LET result == ShrLimbs(ZMul(self, rhs), 1)
    IN  IF ZLess(result, I64MIN) THEN Val(I64MIN)
        ELSE IF ZLess(I64MAX, result) THEN Val(I64MAX)
        ELSE Val(AsI64(result))

\* impl Mul for FixedPoint: (x * y) / FRACTIONAL_SCALE on i128, clamped to the
\* i64 range
FixedPoint_mul(dbg, self, rhs) ==
    LET x == AsTy(self, "i128")
        y == AsTy(rhs, "i128")
        p == I128Mul(dbg, x, y)
        result == ZQuot(p.val, AsTy(FRACTIONAL_SCALE, "i128"))
    IN  IF p.tag # "Val" THEN p
        ELSE IF ZLess(result, AsTy(I64MIN, "i128")) THEN Val(I64MIN)
        ELSE IF ZLess(AsTy(I64MAX, "i128"), result) THEN Val(I64MAX)
        ELSE Val(AsI64(result))

\* i64::saturating_mul
I64SaturatingMul(x, y) ==
    LET r == ZMul(x, y)
    IN  IF InType(r, "i64") THEN r
        ELSE IF IsNeg(x) # IsNeg(y) THEN I64MIN ELSE I64MAX

\* x / y on i64: a zero divisor and i64::MIN / -1 panic in every build
I64Div(x, y) ==
    IF y = ZZero \/ (x = I64MIN /\ y = Z(-1)) THEN Panic ELSE Val(ZQuot(x, y))

\* impl Div for FixedPoint: (x / y).saturating_mul(FRACTIONAL_SCALE as i64)
FixedPoint_div(self, rhs) ==
    LET q == I64Div(self, rhs)
    IN  IF q.tag # "Val" THEN q
        ELSE Val(I64SaturatingMul(q.val, AsI64(FRACTIONAL_SCALE)))

(***************************************************************************)
(* FixedPointVec3 (voxel-maths/src/lib.rs) and AbsoluteCoord               *)
(* (voxel-engine/src/game_state/coords.rs): records of three FixedPoints.  *)
(***************************************************************************)
Vec3(x, y, z) == [x |-> x, y |-> y, z |-> z]

\* impl Add for FixedPointVec3
FixedPointVec3_add(self, rhs) ==
    [x |-> FixedPoint_add(self.x, rhs.x),
     y |-> FixedPoint_add(self.y, rhs.y),
     z |-> FixedPoint_add(self.z, rhs.z)]

\* impl AddAssign for FixedPointVec3: the new *self
FixedPointVec3_add_assign(self, rhs) == FixedPointVec3_add(self, rhs)

\* impl Sub for FixedPointVec3
FixedPointVec3_sub(self, rhs) ==
    [x |-> FixedPoint_sub(self.x, rhs.x),
     y |-> FixedPoint_sub(self.y, rhs.y),
     z |-> FixedPoint_sub(self.z, rhs.z)]

\* impl SubAssign for FixedPointVec3: the new *self
FixedPointVec3_sub_assign(self, rhs) == FixedPointVec3_sub(self, rhs)

\* AbsoluteCoord::from_xyz
from_xyz(x, y, z) == [y |-> y, x |-> x, z |-> z]

\* AbsoluteCoord::xyz
xyz(self) == [x |-> self.x, y |-> self.y, z |-> self.z]

\* impl Add for AbsoluteCoord: vec.x += rhs.x(); vec.y += rhs.y(); vec.z += rhs.z()
AbsoluteCoord_add(self, rhs) ==
    LET vec == xyz(self)
        vec1 == [vec EXCEPT !.x = FixedPoint_add_assign(vec.x, rhs.x)]
        vec2 == [vec1 EXCEPT !.y = FixedPoint_add_assign(vec1.y, rhs.y)]
        vec3 == [vec2 EXCEPT !.z = FixedPoint_add_assign(vec2.z, rhs.z)]
    IN  from_xyz(vec3.x, vec3.y, vec3.z)

\* impl AddAssign for AbsoluteCoord: the new *self
AbsoluteCoord_add_assign(self, rhs) == AbsoluteCoord_add(self, rhs)

(***************************************************************************)
(* The block coordinates (voxel-engine/src/game_state/coords.rs).  A u8 is *)
(* a number in 0..255; an i32 chunk index is a wide integer; an i48 is its *)
(* stored word.                                                            *)
(***************************************************************************)
\* bit i of the byte v
U8Bit(v, i) == (v \div (2 ^ i)) % 2

\* a | b on u8
U8Or(a, b) ==
    LET or[i \in 0..8] ==
            IF i = 8 THEN 0
            ELSE (IF U8Bit(a, i) + U8Bit(b, i) > 0 THEN 2 ^ i ELSE 0) + or[i + 1]
    IN  or[0]

\* a & b on u8
U8And(a, b) ==
    LET and[i \in 0..8] ==
            IF i = 8 THEN 0
            ELSE (IF U8Bit(a, i) + U8Bit(b, i) = 2 THEN 2 ^ i ELSE 0) + and[i + 1]
    IN  and[0]

\* a << n on u8, n < 8: the bits shifted out are lost
U8Shl(a, n) == (a * (2 ^ n)) % 256

\* an "as u8" cast of a wide integer
AsU8(v) == v[1] % 256

\* i48!(16)
i48_16 == expect(new(Z(16))).val

\* ChunkCoord::from_xz
ChunkCoord_from_xz(x, z) == [x |-> x, z |-> z]

\* lhs <name> rhs on i48, where lhs and rhs are what evaluating the operands
\* gave: the operands are evaluated first, left to right
OnOperands(dbg, name, lhs, rhs) ==
    IF lhs.tag # "Val" THEN lhs
    ELSE IF rhs.tag # "Val" THEN rhs
    ELSE impl_bin_op(dbg, name, lhs.val, rhs.val)

\* ChunkCoord::x: i48::from(self.x) * i48!(16)
ChunkCoord_x(dbg, self) ==
    OnOperands(dbg, "mul", lossless_signed_from(self.x), Val(i48_16))

\* ChunkCoord::z: i48::from(self.z) * i48!(16)
ChunkCoord_z(dbg, self) ==
    OnOperands(dbg, "mul", lossless_signed_from(self.z), Val(i48_16))

\* a from_xz that keeps the low nibble only
ChunkRelativeXZ_from_xz_low(dbg, x, z) ==
    IF dbg /\ ~(x < 16 /\ z < 16) THEN Panic ELSE Val(z)

\* ChunkRelativeXZ::from_xz: debug_assert!(x < 16 && z < 16); (x << 4) | z
ChunkRelativeXZ_from_xz(dbg, x, z) ==
    IF dbg /\ ~(x < 16 /\ z < 16) THEN Panic
    ELSE Val(U8Or(U8Shl(x, 4), z))

\* ChunkRelativeXZ::x: self.xz >> 4
ChunkRelativeXZ_x(self) == self \div (2 ^ 4)

\* ChunkRelativeXZ::z: self.xz & ((1 << 4) - 1)
ChunkRelativeXZ_z(self) == U8And(self, (2 ^ 4) - 1)

\* BlockCoord::from_xyz
BlockCoord_from_xyz(dbg, x, y, z) ==
    LET xz == ChunkRelativeXZ_from_xz(dbg, x, z)
    IN  IF xz.tag # "Val" THEN xz ELSE Val([xz |-> xz.val, y |-> y])

\* BlockCoord::x
BlockCoord_x(self) == ChunkRelativeXZ_x(self.xz)

\* BlockCoord::z
BlockCoord_z(self) == ChunkRelativeXZ_z(self.xz)

\* BlockCoord::y
BlockCoord_y(self) == self.y

\* BlockCoord::xyz
BlockCoord_xyz(self) == <<BlockCoord_x(self), BlockCoord_y(self), BlockCoord_z(self)>>

I32MIN == TyMin("i32")

I32MAX == TyMax("i32")

\* the end of separate: the chunk index clamped to i32, with the offset that
\* goes with each end
separate_clamped(chunk, rel) ==
    IF ZLess(AsI64(I32MAX), chunk) THEN <<I32MAX, 15>>
    ELSE IF ZLess(chunk, AsI64(I32MIN)) THEN <<I32MIN, 0>>
    ELSE <<AsTy(chunk, "i32"), rel>>

\* a separate whose chunk index rounds toward zero
separate_trunc(coord) ==
    separate_clamped(I64Quot(as_i64(coord), Z(16)),
                     AsU8(I64RemEuclid(as_i64(coord), Z(16))))

\* a separate that casts the chunk index without clamping it
separate_wrapping(coord) ==
    <<AsTy(I64DivEuclid(as_i64(coord), Z(16)), "i32"),
      AsU8(I64RemEuclid(as_i64(coord), Z(16)))>>

\* AbsoluteBlockCoord::from_xyz::separate: <<chunk index, offset in the chunk>>
\* of num = coord.as_i64(), from num.div_euclid(16) and num.rem_euclid(16) as u8
separate(coord) ==
    separate_clamped(I64DivEuclid(as_i64(coord), Z(16)),
                     AsU8(I64RemEuclid(as_i64(coord), Z(16))))

\* the struct AbsoluteBlockCoord { chunk, block_coord } of from_xyz
AbsoluteBlockCoord_struct(sx, sz, bc) ==
    IF bc.tag # "Val" THEN bc
    ELSE Val([chunk |-> ChunkCoord_from_xz(sx[1], sz[1]), block_coord |-> bc.val])

\* from_xyz after the two calls of separate
AbsoluteBlockCoord_separated(dbg, sx, y, sz) ==
    AbsoluteBlockCoord_struct(sx, sz, BlockCoord_from_xyz(dbg, sx[2], y, sz[2]))

\* AbsoluteBlockCoord::from_xyz
AbsoluteBlockCoord_from_xyz(dbg, x, y, z) ==
    AbsoluteBlockCoord_separated(dbg, separate(x), y, separate(z))

\* AbsoluteBlockCoord::x: self.chunk.x() + i48::from(self.block_coord.x())
AbsoluteBlockCoord_x(dbg, self) ==
    OnOperands(dbg, "add", ChunkCoord_x(dbg, self.chunk),
               lossless_unsigned_from(dbg, Z(BlockCoord_x(self.block_coord))))

\* AbsoluteBlockCoord::z: self.chunk.z() + i48::from(self.block_coord.z())
AbsoluteBlockCoord_z(dbg, self) ==
    OnOperands(dbg, "add", ChunkCoord_z(dbg, self.chunk),
               lossless_unsigned_from(dbg, Z(BlockCoord_z(self.block_coord))))

\* AbsoluteBlockCoord::y
AbsoluteBlockCoord_y(self) == self.block_coord.y

\* the tuple (x, y, z) of xyz, where x and z are what the two calls gave
AbsoluteBlockCoord_tuple(x, y, z) ==
    IF x.tag # "Val" THEN x
    ELSE IF z.tag # "Val" THEN z
    ELSE Val(<<x.val, y, z.val>>)

\* AbsoluteBlockCoord::xyz: (self.x(), self.y(), self.z())
AbsoluteBlockCoord_xyz(dbg, self) ==
    AbsoluteBlockCoord_tuple(AbsoluteBlockCoord_x(dbg, self),
                             AbsoluteBlockCoord_y(self),
                             AbsoluteBlockCoord_z(dbg, self))

(***************************************************************************)
(* Fract (voxel-maths/src/fixed_point.rs): the reciprocal and the          *)
(* formatting of a Fract and of a FixedPoint.  A Fract is its u16 word, a  *)
(* wide integer; what a formatter wrote is a sequence of characters; a     *)
(* precision is None or Some(p).                                           *)
(***************************************************************************)
\* DIGITS_LOWER: '0'..'9', then 'a'..
DIGITS_LOWER ==
    <<"0", "1", "2", "3", "4", "5", "6", "7", "8", "9", "a", "b", "c", "d", "e", "f">>

\* DIGITS_UPPER: DIGITS_LOWER, each through to_ascii_uppercase
DIGITS_UPPER ==
    <<"0", "1", "2", "3", "4", "5", "6", "7", "8", "9", "A", "B", "C", "D", "E", "F">>

\* impl_fmt!: the base and the case of each formatting trait
Traits ==
    [Display  |-> [base |-> 10, uppercase |-> FALSE],
     Binary   |-> [base |-> 2,  uppercase |-> FALSE],
     Octal    |-> [base |-> 8,  uppercase |-> FALSE],
     LowerHex |-> [base |-> 16, uppercase |-> FALSE],
     UpperHex |-> [base |-> 16, uppercase |-> TRUE]]

\* the outcome of a u32 operation whose exact result is p: with overflow checks
\* an overflow panics, without them it wraps
U32Result(dbg, p) ==
    IF InType(p, "u32") THEN Val(p)
    ELSE IF dbg THEN Panic ELSE Val(AsTy(p, "u32"))

\* x * y on u32
U32Mul(dbg, x, y) == U32Result(dbg, ZMul(x, y))

\* max_digits.is_none_or(|max| digits_emitted < max)
is_none_or_below(max_digits, digits_emitted) ==
    IF max_digits.tag = "None" THEN TRUE ELSE digits_emitted < max_digits.val

RECURSIVE fmt_while(_, _, _, _, _, _, _)
RECURSIVE fmt_digit(_, _, _, _, _, _, _, _)
\* the while loop of fmt_fractional, at its test
fmt_while(dbg, radix, digits, max_digits, numerator, digits_emitted, out) ==
    IF numerator # ZZero /\ is_none_or_below(max_digits, digits_emitted)
    THEN fmt_digit(dbg, radix, digits, max_digits,
                   U32Mul(dbg, ZRem(numerator, FRACTIONAL_SCALE), radix),
                   ZQuot(numerator, FRACTIONAL_SCALE)[1],
                   digits_emitted, out)
    ELSE Val([digits_emitted |-> digits_emitted, out |-> out])

\* the body of the loop after numerator = remainder * radix: the digit at
\* digit_index = quotient as usize is written
fmt_digit(dbg, radix, digits, max_digits, numerator, digit_index, digits_emitted, out) ==
    IF numerator.tag # "Val" THEN numerator
    ELSE IF digit_index >= Len(digits) THEN Panic
    ELSE fmt_while(dbg, radix, digits, max_digits, numerator.val,
                   digits_emitted + 1, Append(out, digits[digit_index + 1]))

\* the loop, entered with numerator = self.0 as u32 * radix
fmt_loop(dbg, radix, digits, max_digits, numerator, out) ==
    IF numerator.tag # "Val" THEN numerator
    ELSE fmt_while(dbg, radix, digits, max_digits, numerator.val, 0, out)

\* if let Some(max) = max_digits: a '0' for each of digits_emitted..max
fmt_padding(max_digits, done) ==
    IF done.tag # "Val" THEN done
    ELSE IF max_digits.tag = "Some" /\ done.val.digits_emitted < max_digits.val
    THEN Val(done.val.out \o Rep("0", max_digits.val - done.val.digits_emitted))
    ELSE Val(done.val.out)

\* a fmt_fractional that stops an unlimited expansion at three digits
fmt_fractional_short(dbg, RADIX, UPPERCASE, self, precision, out) ==
    fmt_padding(precision,
        fmt_loop(dbg, Z(RADIX), IF UPPERCASE THEN DIGITS_UPPER ELSE DIGITS_LOWER,
                 IF precision.tag = "None" THEN Some(3) ELSE precision,
                 U32Mul(dbg, AsTy(self, "u32"), Z(RADIX)), out))

\* Fract::fmt_fractional::<RADIX, UPPERCASE>: what f holds afterwards, out being
\* what it held before
fmt_fractional(dbg, RADIX, UPPERCASE, self, precision, out) ==
    IF self = ZZero THEN Val(Append(out, "0"))
    ELSE fmt_padding(precision,
            fmt_loop(dbg, Z(RADIX), IF UPPERCASE THEN DIGITS_UPPER ELSE DIGITS_LOWER,
                     precision, U32Mul(dbg, AsTy(self, "u32"), Z(RADIX)), out))

\* x * y on u32, for x and y small enough that the exact product is below
\* 2^31 (the loop multiplies a remainder below 2^16, or a u16, by a radix of
\* at most 16): with overflow checks an overflow panics, without them it wraps
U32MulSmall(dbg, x, y) ==
    IF (x * y) \div 65536 <= 65535 THEN Val(x * y)
    ELSE IF dbg THEN Panic
    ELSE Val((65536 * (((x * y) \div 65536) % 65536)) + ((x * y) % 65536))

\* the locals after one more digit
fmt_written(numerator, digits, digit_index, st) ==
    IF numerator.tag # "Val" THEN numerator
    ELSE IF digit_index >= Len(digits) THEN Panic
    ELSE Val([numerator |-> numerator.val,
              digits_emitted |-> st.digits_emitted + 1,
              out |-> Append(st.out, digits[digit_index + 1])])

\* a pass through the loop that carries the whole numerator on, not the
\* remainder
fmt_pass_whole(dbg, radix, digits, st) ==
    fmt_written(U32MulSmall(dbg, st.numerator, radix), digits,
                st.numerator \div 65536, st)

\* one pass through the body of the while loop, from the locals st (numerator,
\* digits_emitted, and what was written) to the locals after it: quotient and
\* remainder of numerator by FRACTIONAL_SCALE, numerator = remainder * radix,
\* and the digit at quotient
fmt_pass(dbg, radix, digits, st) ==
    fmt_written(U32MulSmall(dbg, st.numerator % 65536, radix), digits,
                st.numerator \div 65536, st)

\* the test of the while loop on the locals st
fmt_test(max_digits, st) ==
    st.numerator # 0 /\ is_none_or_below(max_digits, st.digits_emitted)

\* impl $trait for Fract: "0." and the fraction
Fract_fmt(dbg, trait, self, precision) ==
    fmt_fractional(dbg, Traits[trait].base, Traits[trait].uppercase, self,
                   precision, <<"0", ".">>)

\* the digits of v >= 0 in a radix, most significant first
RECURSIVE UDigits(_, _, _)
UDigits(v, radix, digits) ==
    IF ZLess(v, radix) THEN <<digits[v[1] + 1]>>
    ELSE Append(UDigits(UDivMod(v, radix)[1], radix, digits),
                digits[UDivMod(v, radix)[2][1] + 1])

\* the number of bits of v, 0 <= v < 2^64
BitLen(v) ==
    CHOOSE n \in 0..64 : ZLess(v, Pow2(n)) /\ (n = 0 \/ ZLeq(Pow2(n - 1), v))

\* the digit of weight (2^k)^j of v >= 0: its bits k j .. k j + k - 1
DigitAt(v, k, j) ==
    LET bits[t \in 0..k] ==
            IF t = k THEN 0
            ELSE BitOf(v[((k * j + t) \div 16) + 1], (k * j + t) % 16) * (2 ^ t)
                 + bits[t + 1]
    IN  bits[0]

\* the len digits of v >= 0 in the radix 2^k, most significant first
BitDigitsOf(v, k, len, digits) ==
    SubSeq([i \in 1..len |-> digits[DigitAt(v, k, len - i) + 1]], 1, len)

\* the digits of v, 0 <= v < 2^64, in the radix 2^k: at least one
BitDigits(v, k, digits) ==
    BitDigitsOf(v, k, IF v = ZZero THEN 1 ELSE (BitLen(v) + k - 1) \div k, digits)

\* <i64 as $trait>::fmt with no flag and no width: Display writes a sign and the
\* magnitude, the other traits the 64 bits of the two's complement; a
\* precision is ignored
I64_fmt(trait, v) ==
    IF trait = "Display"
    THEN (IF IsNeg(v) THEN <<"-">> ELSE <<>>) \o UDigits(ZAbs(v), Z(10), DIGITS_LOWER)
    ELSE BitDigits(AsU64(v),
                   CASE Traits[trait].base = 2 -> 1
                     [] Traits[trait].base = 8 -> 3
                     [] Traits[trait].base = 16 -> 4,
                   IF Traits[trait].uppercase THEN DIGITS_UPPER ELSE DIGITS_LOWER)

\* impl $trait for FixedPoint, after let (int, frac) = self.to_raw(): the
\* integer, '.', and the fraction
FixedPoint_fmt_raw(dbg, trait, raw, precision) ==
    IF raw.tag # "Val" THEN raw
    ELSE fmt_fractional(dbg, Traits[trait].base, Traits[trait].uppercase,
                        raw.val[2], precision,
                        Append(I64_fmt(trait, as_i64(raw.val[1])), "."))

\* impl $trait for FixedPoint
FixedPoint_fmt(dbg, trait, self, precision) ==
    FixedPoint_fmt_raw(dbg, trait, to_raw(dbg, self), precision)

\* a recip that rounds the quotient up
Fract_recip_ceil(x) ==
    IF ~ZLess(Z(1), x) THEN Panic
    ELSE Val(AsTy(ZQuot(ZAdd(FRACTIONAL_SCALE, ZSub(AsTy(x, "u32"), Z(1))),
                        AsTy(x, "u32")), "u16"))

\* Fract::recip: assert!(x > 1); (FRACTIONAL_SCALE / x as u32) as u16
Fract_recip(x) ==
    IF ~ZLess(Z(1), x) THEN Panic
    ELSE Val(AsTy(ZQuot(FRACTIONAL_SCALE, AsTy(x, "u32")), "u16"))

\* Fract::HALF
HALF == Fract_recip(Z(2)).val

\* (product / FRACTIONAL_SCALE) as u16, of the u32 product
RescaledDown(product) ==
    IF product.tag = "Val"
    THEN Val(AsTy(ZQuot(product.val, FRACTIONAL_SCALE), "u16"))
    ELSE product

\* a multiplication that rounds the rescaled product to the nearest
Fract_mul_nearest(dbg, self, rhs) ==
    Val(AsTy(ZQuot(ZAdd(ZMul(self, rhs), Pow2(15)), FRACTIONAL_SCALE), "u16"))

\* impl Mul for Fract: ((self.0 as u32 * rhs.0 as u32) / FRACTIONAL_SCALE) as u16
Fract_mul(dbg, self, rhs) ==
    RescaledDown(U32Mul(dbg, AsTy(self, "u32"), AsTy(rhs, "u32")))

\* x * y on i64: with overflow checks an overflow panics, without them it wraps
I64Mul(dbg, x, y) ==
    IF InType(ZMul(x, y), "i64") THEN Val(ZMul(x, y))
    ELSE IF dbg THEN Panic ELSE Val(AsI64(ZMul(x, y)))

\* impl Div for Fract: (self.0 / rhs.0) as i64 * FRACTIONAL_SCALE as i64; the
\* quotient is the one of the two u16 words, and a zero divisor panics
Fract_div(dbg, self, rhs) ==
    IF rhs = ZZero THEN Panic
    ELSE I64Mul(dbg, AsI64(ZQuot(self, rhs)), AsI64(FRACTIONAL_SCALE))

(***************************************************************************)
(* Keybinding (voxel-engine/src/controls.rs).  A slice is a sequence of    *)
(* buttons; the array keys has 8 slots, each a button or uninitialised.    *)
(***************************************************************************)
\* MaybeUninit::uninit()
uninit == "uninit"

\* Err(InvalidLength(invalid))
InvalidLength(invalid) == [tag |-> "Err", val |-> invalid]

\* Keybinding::from_slice: the arm len @ 1..8 (a range without its end) copies
\* len keys into the array; every other length is invalid
Keybinding_from_slice(slice) ==
    IF Len(slice) >= 1 /\ Len(slice) < 8
    THEN Ok([len |-> Len(slice), keys |-> slice \o Rep(uninit, 8 - Len(slice))])
    ELSE InvalidLength(Len(slice))

\* Keybinding::as_slice: the first len slots
Keybinding_as_slice(self) == SubSeq(self.keys, 1, self.len)

\* Keybinding::keys: self.as_slice().iter().copied()
Keybinding_keys(self) == Keybinding_as_slice(self)

(***************************************************************************)
(* ButtonInput, KeyMap and Controls (voxel-engine/src/controls.rs).  A     *)
(* ButtonInput is its three sets; a Controls is the ButtonInput of its     *)
(* keys, the key map being the default one (the mouse motion it also       *)
(* accumulates takes no part in the mappings).                             *)
(***************************************************************************)
\* ButtonInput::new
ButtonInput_new == [pressed |-> {}, just_pressed |-> {}, just_released |-> {}]

\* a press that counts every press event as a new press
ButtonInput_press_every(self, input) ==
    [self EXCEPT !.pressed = @ \cup {input}, !.just_pressed = @ \cup {input}]

\* ButtonInput::press: if self.pressed.insert(input) { just_pressed.insert(input) }
ButtonInput_press(self, input) ==
    IF input \notin self.pressed
    THEN [self EXCEPT !.pressed = @ \cup {input}, !.just_pressed = @ \cup {input}]
    ELSE self

\* ButtonInput::pressed
ButtonInput_pressed(self, input) == input \in self.pressed

\* ButtonInput::just_pressed
ButtonInput_just_pressed(self, input) == input \in self.just_pressed

\* ButtonInput::release: if self.pressed.remove(&input) { just_released.insert(input) }
ButtonInput_release(self, input) ==
    IF input \in self.pressed
    THEN [self EXCEPT !.pressed = @ \ {input}, !.just_released = @ \cup {input}]
    ELSE self

\* ButtonInput::release_all: self.just_released.extend(self.pressed.drain())
ButtonInput_release_all(self) ==
    [self EXCEPT !.just_released = @ \cup self.pressed, !.pressed = {}]

\* ButtonInput::reset_all
ButtonInput_reset_all(self) ==
    [pressed |-> {}, just_pressed |-> {}, just_released |-> {}]

\* ButtonInput::clear
ButtonInput_clear(self) == [self EXCEPT !.just_pressed = {}, !.just_released = {}]

\* Keybinding::held_down: self.keys().all(|key| inputs.pressed(key))
Keybinding_held_down(self, inputs) ==
    \A i \in 1..Len(Keybinding_keys(self)) :
       ButtonInput_pressed(inputs, Keybinding_keys(self)[i])

\* Keybinding::triggered: a binding of one key is triggered when the key was
\* just pressed; a longer one when it is held down and a key of it was just
\* pressed
Keybinding_triggered(self, inputs) ==
    IF Len(Keybinding_as_slice(self)) = 1
    THEN ButtonInput_just_pressed(inputs, Keybinding_as_slice(self)[1])
    ELSE /\ Keybinding_held_down(self, inputs)
         /\ \E i \in 1..Len(Keybinding_keys(self)) :
                ButtonInput_just_pressed(inputs, Keybinding_keys(self)[i])

\* define_key_mappings!: the keys of each action
DefaultKeys ==
    [WalkForwards |-> <<"KeyW">>, WalkBackwards |-> <<"KeyS">>,
     WalkRight |-> <<"KeyD">>, WalkLeft |-> <<"KeyA">>,
     Jump |-> <<"Space">>, Sneak |-> <<"ShiftLeft">>, Sprint |-> <<"ControlLeft">>,
     MainMenu |-> <<"Escape">>, Exit |-> <<"Escape", "Backspace">>,
     Fullscreen |-> <<"F11">>]

\* enum KeyMapping
KeyMapping == DOMAIN DefaultKeys

\* default_actions: each binding is the Ok of Keybinding::from_slice (an Err
\* stops the build)
default_actions ==
    [mapping \in KeyMapping |-> Keybinding_from_slice(DefaultKeys[mapping]).val]

\* KeyMap::get
KeyMap_get(self, mapping) == self[mapping]

\* Controls::held_down: self.map.get(mapping).held_down(&self.inputs)
Controls_held_down(self, mapping) ==
    Keybinding_held_down(KeyMap_get(default_actions, mapping), self)

\* Controls::triggered: self.map.get(mapping).triggered(&self.inputs)
Controls_triggered(self, mapping) ==
    Keybinding_triggered(KeyMap_get(default_actions, mapping), self)

\* Controls::default
Controls_default == ButtonInput_new

\* Controls::new_frame: self.mkb.keys.clear()
Controls_new_frame(self) == ButtonInput_clear(self)

\* a lost_focus that releases the keys and keeps the rest
Controls_lost_focus_released(self) == ButtonInput_release_all(self)

\* Controls::lost_focus: input.reset_all(); input.release_all()
Controls_lost_focus(self) == ButtonInput_release_all(ButtonInput_reset_all(self))

\* Controls::update on a key event: update_mkb_buttons(code, state)
Controls_update_mkb_buttons(self, code, state) ==
    IF state = "Pressed" THEN ButtonInput_press(self, code)
    ELSE ButtonInput_release(self, code)

(***************************************************************************)
(* The state: a build mode, an integer input, two i48 operands, a          *)
(* FixedPoint, an AbsoluteCoord and a FixedPointVec3, and the last call    *)
(* made with its result.                                                   *)
(***************************************************************************)
VARIABLES
    debug,   \* cfg!(debug_assertions): a validated build; FALSE: an optimized one
    arg,     \* the integer given to a constructor or a conversion
    a,       \* the i48 operand self (its stored word)
    b,       \* the i48 operand rhs (its stored word)
    op,      \* the last call: <<function, name or type>>
    res,     \* what the call returned
    steps,   \* compound assignments made so far
    fx,      \* a FixedPoint (its raw i64 word)
    pos,     \* an AbsoluteCoord
    v3,      \* a FixedPointVec3
    origin,  \* fx and the vector as they were at the start
    trail,   \* the compound assignments made since: <<operator, rhs>>
    given,   \* the arguments of the last constructor call
    obj      \* the object it built

fixedVars == <<fx, pos, v3, origin, trail>>

builtVars == <<given, obj>>

vars == <<debug, arg, a, b, op, res, steps, fx, pos, v3, origin, trail, given, obj>>

\* how far from each boundary value the inputs are drawn
Spread == 1

\* compound assignments in a row
MaxSteps == 2

Near(c) == {ZAdd(c, Z(k)) : k \in (0 - Spread)..Spread}

Below(c) == {ZSub(c, Z(k)) : k \in 0..Spread}

Above(c) == {ZAdd(c, Z(k)) : k \in 0..Spread}

\* inputs of the constructors and conversions: around 0, around the two ends
\* of the i48 range, around 2^48 (the first word from_bits refuses), and the
\* ends of each primitive type
Inputs ==
    Near(ZZero) \cup Near(MAX) \cup Near(MIN) \cup Near(Pow2(BITS))
    \cup {TyMin(ty) : ty \in DOMAIN IntTypes}
    \cup {TyMax(ty) : ty \in DOMAIN IntTypes}
    \cup {Z(5), Z(-5), Z(100), Z(-100)}

\* the operands: i48 values made by i48::new from the values around 0 and at
\* the two ends of the range, and two whose product is 2^47
OperandValues ==
    Near(ZZero) \cup Below(MAX) \cup Above(MIN) \cup {Pow2(24), Pow2(23), Z(13), Z(-5)}

Operands == {new(v).val : v \in OperandValues}

NoCall == <<"none", "">>

InitI48 ==
    /\ debug \in BOOLEAN
    /\ \/ arg \in Inputs /\ a = new(ZZero).val /\ b = new(ZZero).val
       \/ arg = ZZero /\ a \in Operands /\ b \in Operands
    /\ op = NoCall
    /\ res = None
    /\ steps = 0
    /\ fx = ZZero
    /\ pos = Vec3(ZZero, ZZero, ZZero)
    /\ v3 = Vec3(ZZero, ZZero, ZZero)
    /\ origin = [fx |-> fx, vec |-> pos]
    /\ trail = <<>>
    /\ given = <<>>
    /\ obj = <<>>

\* no call was made yet
Ready == op = NoCall

\* a call that changes no operand
Call(f, name, r) ==
    /\ Ready
    /\ op' = <<f, name>>
    /\ res' = r
    /\ UNCHANGED <<debug, arg, a, b, steps, fixedVars, builtVars>>

New == Ready /\ InType(arg, "i64") /\ Call("new", "", new(arg))

NewWrapping == Ready /\ InType(arg, "i64") /\ Call("new_wrapping", "", Val(new_wrapping(arg)))

FromBits == Ready /\ InType(arg, "u64") /\ Call("from_bits", "", from_bits(arg))

FromBitsWrapping ==
    Ready /\ InType(arg, "u64") /\ Call("from_bits_wrapping", "", Val(from_bits_wrapping(arg)))

From ==
    /\ Ready
    /\ \/ \E ty \in {"i8", "i16", "i32"} :
             InType(arg, ty) /\ Call("from", ty, lossless_signed_from(arg))
       \/ \E ty \in {"u8", "u16", "u32"} :
             InType(arg, ty) /\ Call("from", ty, lossless_unsigned_from(debug, arg))

TryFrom ==
    /\ Ready
    /\ \/ \E ty \in {"i64", "i128", "isize"} :
             InType(arg, ty) /\ Call("try_from", ty, lossy_signed_from(ty, arg))
       \/ \E ty \in {"u64", "u128", "usize"} :
             InType(arg, ty) /\ Call("try_from", ty, lossy_unsigned_from(debug, ty, arg))

CheckedBinop ==
    \E name \in CheckedBinops : Call("checked", name, impl_checked_binop(name, a, b))

CheckedUnop ==
    \E name \in CheckedUnops : Call("checked", name, impl_checked_unop(name, a))

WrappingBinop ==
    \E name \in CheckedBinops : Call("wrapping", name, impl_wrapping_binop(name, a, b))

WrappingAbs == Call("wrapping", "abs", wrapping_abs(a))

WrappingNeg == Call("wrapping", "neg", wrapping_neg(debug, a))

BinOp == \E name \in BinOps : Call("op", name, impl_bin_op(debug, name, a, b))

\* the compound assignments: *self = self <op> rhs
AssignOp ==
    \E name \in BinOps :
       LET r == impl_bin_op(debug, name, a, b)
       IN  /\ op = NoCall \/ (op[1] = "op_assign" /\ res.tag # "Panic")
           /\ steps < MaxSteps
           /\ op' = <<"op_assign", name>>
           /\ res' = r
           /\ a' = IF r.tag = "Val" THEN r.val ELSE a
           /\ steps' = steps + 1
           /\ UNCHANGED <<debug, arg, b, fixedVars, builtVars>>

Neg == Call("neg", "", neg(debug, a))

Not == Call("not", "", Val(not(a)))

\* the comparisons and the hash of the two operands
Compare ==
    Call("compare", "",
         [tag |-> "Cmp",
          val |-> [eq |-> eq(a, b), ne |-> ne(a, b), lt |-> lt(a, b),
                   le |-> le(a, b), gt |-> gt(a, b), ge |-> ge(a, b),
                   cmp |-> cmp(a, b), hash_self |-> hash(a), hash_other |-> hash(b)]])

\* FixedPoint::int of the FixedPoint whose raw word is the input
FixedInt == Ready /\ InType(arg, "i64") /\ Call("int", "", int(debug, arg))

NextI48 ==
    \/ FixedInt
    \/ New \/ NewWrapping \/ FromBits \/ FromBitsWrapping \/ From \/ TryFrom
    \/ CheckedBinop \/ CheckedUnop \/ WrappingBinop \/ WrappingAbs \/ WrappingNeg
    \/ BinOp \/ AssignOp \/ Neg \/ Not \/ Compare

Init == InitI48

Next == NextI48

Spec == Init /\ [][Next]_vars

(***************************************************************************)
(* The FixedPoint calls: the two round trips through from_raw and to_raw,  *)
(* a + b and a - b, and runs of compound assignments on a FixedPoint, on a *)
(* FixedPointVec3 and on an AbsoluteCoord.                                 *)
(***************************************************************************)
\* the raw words: around 0, at the two ends of i64, 1.0, 2.0 and -3.5
FixedWords ==
    Near(ZZero) \cup Below(I64MAX) \cup Above(I64MIN)
    \cup {Pow2(16), Pow2(17), ZNeg(ZAdd(ZMul(Z(3), Pow2(16)), Pow2(15)))}

\* the right-hand sides of the multiplications and divisions
Factors ==
    {ZZero, Z(1), Z(-1), Z(3), Z(-3), Pow2(15), Pow2(16), Z(-98304),
     Pow2(47), I64MAX, I64MIN}

\* the fractions
Fracts == {ZZero, Z(1), Pow2(15), ZSub(Pow2(16), Z(1))}

\* the right-hand sides of the additions and subtractions
Steps == {Z(1), Z(-1), Pow2(16), I64MAX, I64MIN}

\* the vectors the runs start from, each with a component next to an end
VecStarts ==
    {Vec3(ZSub(I64MAX, Z(1)), ZZero, ZAdd(I64MIN, Z(1))),
     Vec3(Z(-1), I64MIN, Pow2(16)),
     Vec3(Pow2(16), Z(1), I64MAX)}

\* the vectors added and subtracted
VecSteps ==
    {Vec3(I64MAX, Pow2(16), Z(-1)),
     Vec3(Z(1), I64MIN, Z(1)),
     Vec3(Z(-1), Z(-1), I64MIN),
     Vec3(Z(2), ZZero, Z(-2))}

InitFixed ==
    /\ debug \in BOOLEAN
    /\ arg = ZZero
    /\ a = new(ZZero).val
    /\ b = new(ZZero).val
    /\ op = NoCall
    /\ res = None
    /\ steps = 0
    /\ \/ fx \in FixedWords /\ pos = Vec3(ZZero, ZZero, ZZero)
       \/ fx = ZZero /\ pos \in VecStarts
    /\ v3 = xyz(pos)
    /\ origin = [fx |-> fx, vec |-> pos]
    /\ trail = <<>>
    /\ given = <<>>
    /\ obj = <<>>

\* a call that changes nothing: what went in is written in the trail
FixedCall(f, name, r, in) ==
    /\ Ready
    /\ op' = <<f, name>>
    /\ res' = r
    /\ trail' = <<in>>
    /\ UNCHANGED <<debug, arg, a, b, steps, fx, pos, v3, origin, builtVars>>

\* from_raw(int, frac).to_raw()
FromRawToRaw ==
    \E i \in Operands, f \in Fracts :
       FixedCall("from_raw", "to_raw", to_raw(debug, from_raw(i, f)), <<i, f>>)

\* from_raw(v.int(), v.fract()) of the FixedPoint v
ToRawFromRaw ==
    LET r == to_raw(debug, fx)
    IN  FixedCall("to_raw", "from_raw",
                  IF r.tag = "Val" THEN Val(from_raw(r.val[1], r.val[2])) ELSE r,
                  <<fx>>)

\* a + b
FixedAdd ==
    \E rhs \in Steps :
       FixedCall("fixed_op", "add", Val(FixedPoint_add(fx, rhs)), <<"add", rhs>>)

\* a - b
FixedSub ==
    \E rhs \in Steps :
       FixedCall("fixed_op", "sub", Val(FixedPoint_sub(fx, rhs)), <<"sub", rhs>>)

\* a * b
FixedMul ==
    \E rhs \in Factors :
       FixedCall("fixed_mul", "", FixedPoint_mul(debug, fx, rhs), <<"mul", rhs>>)

\* a / b
FixedDiv ==
    \E rhs \in Factors :
       FixedCall("fixed_div", "", FixedPoint_div(fx, rhs), <<"div", rhs>>)

\* the right-hand sides of the comparisons: the raw words, and words that
\* share an integer part or a fraction with one of them
Comparands ==
    FixedWords \cup {Z(-98304), Z(-65536), Z(-65537), Z(65537), Z(98304), Z(2)}

\* the comparisons of a and b, and the parts of each
FixedCompare ==
    \E other \in Comparands :
       FixedCall("fixed_cmp", "",
                 [tag |-> "Cmp",
                  val |-> [lt |-> FixedPoint_lt(fx, other),
                           le |-> FixedPoint_le(fx, other),
                           gt |-> FixedPoint_gt(fx, other),
                           ge |-> FixedPoint_ge(fx, other),
                           eq |-> FixedPoint_eq(fx, other),
                           cmp |-> FixedPoint_cmp(fx, other),
                           self_raw |-> to_raw(debug, fx),
                           other_raw |-> to_raw(debug, other)]],
                 <<"cmp", other>>)

\* one more compound assignment of a run on the object named f
Assign(f, name, rhs) ==
    /\ op = NoCall \/ op[1] = f
    /\ steps < MaxSteps
    /\ op' = <<f, name>>
    /\ steps' = steps + 1
    /\ trail' = Append(trail, <<name, rhs>>)
    /\ UNCHANGED <<debug, arg, a, b, origin, builtVars>>

\* self += rhs on a FixedPoint
FixedAddAssign ==
    \E rhs \in Steps :
       /\ Assign("fixed", "add", rhs)
       /\ fx' = FixedPoint_add_assign(fx, rhs)
       /\ res' = Val(fx')
       /\ UNCHANGED <<pos, v3>>

\* self -= rhs on a FixedPoint
FixedSubAssign ==
    \E rhs \in Steps :
       /\ Assign("fixed", "sub", rhs)
       /\ fx' = FixedPoint_sub_assign(fx, rhs)
       /\ res' = Val(fx')
       /\ UNCHANGED <<pos, v3>>

\* self += rhs on a FixedPointVec3
Vec3AddAssign ==
    \E rhs \in VecSteps :
       /\ Assign("vec3", "add", rhs)
       /\ v3' = FixedPointVec3_add_assign(v3, rhs)
       /\ res' = Val(v3')
       /\ UNCHANGED <<fx, pos>>

\* self -= rhs on a FixedPointVec3
Vec3SubAssign ==
    \E rhs \in VecSteps :
       /\ Assign("vec3", "sub", rhs)
       /\ v3' = FixedPointVec3_sub_assign(v3, rhs)
       /\ res' = Val(v3')
       /\ UNCHANGED <<fx, pos>>

\* self += rhs on an AbsoluteCoord
CoordAddAssign ==
    \E rhs \in VecSteps :
       /\ Assign("coord", "add", rhs)
       /\ pos' = AbsoluteCoord_add_assign(pos, rhs)
       /\ res' = Val(pos')
       /\ UNCHANGED <<fx, v3>>

NextFixed ==
    \/ FromRawToRaw \/ ToRawFromRaw
    \/ FixedAdd \/ FixedSub \/ FixedAddAssign \/ FixedSubAssign
    \/ FixedMul \/ FixedDiv \/ FixedCompare
    \/ Vec3AddAssign \/ Vec3SubAssign \/ CoordAddAssign

SpecFixed == InitFixed /\ [][NextFixed]_vars

(***************************************************************************)
(* The block coordinate calls: a constructor (of a ChunkRelativeXZ, of a   *)
(* BlockCoord or of an AbsoluteBlockCoord), and then the accessors of the  *)
(* AbsoluteBlockCoord it built.                                            *)
(***************************************************************************)
\* the variables of the i48 and FixedPoint calls, at rest
AtRest ==
    /\ arg = ZZero
    /\ a = new(ZZero).val
    /\ b = new(ZZero).val
    /\ steps = 0
    /\ fx = ZZero
    /\ pos = Vec3(ZZero, ZZero, ZZero)
    /\ v3 = Vec3(ZZero, ZZero, ZZero)
    /\ origin = [fx |-> fx, vec |-> pos]
    /\ trail = <<>>

\* the axis values: around 0 and the chunk edges next to it, around the two
\* ends of the representable chunk range, and the two ends of i48
AxisValues ==
    Near(ZZero) \cup Near(Pow2(35)) \cup Near(NegPow2(35))
    \cup {Z(15), Z(16), Z(-16), Z(-17), MAX, MIN}

Axes == {new(v).val : v \in AxisValues}

Heights == {0, 1, 255}

\* the bytes given as in-chunk offsets: in range, just out of it, and the top
Offsets == 0..17 \cup {32, 255}

InitCoords ==
    /\ debug \in BOOLEAN
    /\ AtRest
    /\ op = NoCall
    /\ res = None
    /\ given = <<>>
    /\ obj = <<>>

\* a constructor call: the object is what it returned
Build(f, in, r) ==
    /\ Ready
    /\ op' = <<f, "">>
    /\ res' = r
    /\ given' = in
    /\ obj' = IF r.tag = "Val" THEN r.val ELSE obj
    /\ UNCHANGED <<debug, arg, a, b, steps, fixedVars>>

\* an accessor call on the object that constructor f built
Access(f, g, r) ==
    /\ op[1] = f
    /\ res.tag = "Val"
    /\ op' = <<g, "">>
    /\ res' = r
    /\ UNCHANGED <<debug, arg, a, b, steps, fixedVars, builtVars>>

RelFromXz ==
    \E x \in Offsets, z \in Offsets :
       Build("rel_from_xz", <<x, z>>, ChunkRelativeXZ_from_xz(debug, x, z))

BlockFromXyz ==
    \E x \in Offsets, z \in Offsets, y \in Heights :
       Build("block_from_xyz", <<x, y, z>>, BlockCoord_from_xyz(debug, x, y, z))

AbsFromXyz ==
    \E x \in Axes, z \in Axes, y \in Heights :
       Build("abs_from_xyz", <<x, y, z>>, AbsoluteBlockCoord_from_xyz(debug, x, y, z))

AbsX == Access("abs_from_xyz", "abs_x", AbsoluteBlockCoord_x(debug, obj))

AbsZ == Access("abs_from_xyz", "abs_z", AbsoluteBlockCoord_z(debug, obj))

AbsXyz == Access("abs_from_xyz", "abs_xyz", AbsoluteBlockCoord_xyz(debug, obj))

NextCoords ==
    \/ RelFromXz \/ BlockFromXyz \/ AbsFromXyz
    \/ AbsX \/ AbsZ \/ AbsXyz

SpecCoords == InitCoords /\ [][NextCoords]_vars

(***************************************************************************)
(* The Fract calls: recip, and the formatting of a Fract and of a          *)
(* FixedPoint through each of the five traits, with and without a          *)
(* precision.                                                              *)
(***************************************************************************)
\* the largest precision asked for
MaxPrecision == 4

Precisions == {None} \cup {Some(p) : p \in 0..MaxPrecision}

TraitNames == {"Display", "Binary", "Octal", "LowerHex", "UpperHex"}

\* the u16 words: 0, the smallest and the largest, the ones of tests::test_fmt,
\* and some with short and with long expansions
FractWords ==
    {ZZero, Z(1), Z(3), Z(4096), Z(8000), Z(16384), Pow2(15), Z(40960), Z(49152),
     Ones(16)}

\* the raw words formatted: 0, 1.0, 1.5, -1.5, the two next to 0 and the two
\* ends
FmtWords == {ZZero, Pow2(16), Z(98304), Z(-98304), Z(1), Z(-1), I64MAX, I64MIN}

RecipArgs == {Z(k) : k \in 0..5} \cup {Z(255), Z(256), Z(257), Pow2(15), Ones(16)}

InitFract == InitCoords

Recip == \E x \in RecipArgs : Build("recip", <<x>>, Fract_recip(x))

FractFmt ==
    \E self \in FractWords, trait \in TraitNames, precision \in Precisions :
       Build("fract_fmt", <<self, trait, precision>>,
             Fract_fmt(debug, trait, self, precision))

FixedFmt ==
    \E self \in FmtWords, trait \in TraitNames, precision \in Precisions :
       Build("fixed_fmt", <<self, trait, precision>>,
             FixedPoint_fmt(debug, trait, self, precision))

NextFract == Recip \/ FractFmt \/ FixedFmt

SpecFract == InitFract /\ [][NextFract]_vars

(***************************************************************************)
(* The arithmetic of Fract: a * b and a / b on pairs of magnitudes.        *)
(***************************************************************************)
\* the u16 magnitudes: the two ends and their neighbours, the powers of two
\* one quarter, one half and three quarters, and some with no common factor
Magnitudes ==
    {ZZero, Z(1), Z(2), Z(3), Z(255), Z(256), Z(257), Z(8000), Z(16384),
     Z(32767), Pow2(15), Z(32769), Z(49152), Z(65534), Ones(16)}

InitFractOps == InitCoords

FractMul ==
    \E self \in Magnitudes, rhs \in Magnitudes :
       Build("fract_mul", <<self, rhs>>, Fract_mul(debug, self, rhs))

FractDiv ==
    \E self \in Magnitudes, rhs \in Magnitudes :
       Build("fract_div", <<self, rhs>>, Fract_div(debug, self, rhs))

NextFractOps == FractMul \/ FractDiv

SpecFractOps == InitFractOps /\ [][NextFractOps]_vars

(***************************************************************************)
(* The digit loop of Fract::fmt_fractional, one pass at a time: the call   *)
(* is entered, the loop is at its test with the locals in obj, and the     *)
(* call has returned.  The locals are small numbers here (a numerator is   *)
(* below 2^20), held as they are.                                          *)
(***************************************************************************)
\* the passes after which a loop that is still running is left alone
MaxDigits == 20

\* the u16 words: those of the formatting calls, each power of two, and each
\* power of two below 2^16 (every number of trailing zero bits, in words with
\* one bit set and in words with many)
LoopWords ==
    FractWords \cup {Z(2 ^ k) : k \in 0..15} \cup {Z(65536 - 2 ^ k) : k \in 0..15}

\* no precision, and the largest one
LoopPrecisions == {None, Some(MaxPrecision)}

AtTest == <<"digits", "while">>

Returned == <<"digits", "returned">>

DigitsOf(trait) == IF Traits[trait].uppercase THEN DIGITS_UPPER ELSE DIGITS_LOWER

InitDigits == InitCoords

\* fmt_fractional is called: it returns at once for 0, and reaches the loop
\* with numerator = self.0 as u32 * radix otherwise
FmtEnter ==
    \E self \in LoopWords, trait \in TraitNames, precision \in LoopPrecisions :
       LET numerator == U32MulSmall(debug, self[1], Traits[trait].base)
       IN  /\ Ready
           /\ given' = <<self, trait, precision>>
           /\ IF self = ZZero
              THEN op' = Returned /\ res' = Val(<<"0">>) /\ obj' = obj
              ELSE IF numerator.tag # "Val"
              THEN op' = Returned /\ res' = numerator /\ obj' = obj
              ELSE /\ op' = AtTest
                   /\ res' = None
                   /\ obj' = [numerator |-> numerator.val, digits_emitted |-> 0,
                              out |-> <<>>]
           /\ UNCHANGED <<debug, arg, a, b, steps, fixedVars>>

\* the test holds: one pass through the body
FmtPass ==
    LET after == fmt_pass(debug, Traits[given[2]].base, DigitsOf(given[2]), obj)
    IN  /\ op = AtTest
        /\ fmt_test(given[3], obj)
        /\ obj.digits_emitted < MaxDigits
        /\ IF after.tag = "Val"
           THEN obj' = after.val /\ UNCHANGED <<op, res>>
           ELSE op' = Returned /\ res' = after /\ obj' = obj
        /\ UNCHANGED <<debug, arg, a, b, steps, fixedVars, given>>

\* the test fails: the padding, and the call returns
FmtLeave ==
    /\ op = AtTest
    /\ ~fmt_test(given[3], obj)
    /\ op' = Returned
    /\ res' = fmt_padding(given[3], Val(obj))
    /\ UNCHANGED <<debug, arg, a, b, steps, fixedVars, given, obj>>

NextDigits == FmtEnter \/ FmtPass \/ FmtLeave

SpecDigits == InitDigits /\ [][NextDigits]_vars

\* a thread that is in the call goes on running it
SpecDigitsFair == SpecDigits /\ WF_vars(FmtPass \/ FmtLeave)

(***************************************************************************)
(* The Keybinding calls: from_slice, and keys on the binding it returned.  *)
(***************************************************************************)
\* the longest slice given
MaxSlice == 9

Buttons == {"KeyW", "Space"}

Slices == UNION {[1..n -> Buttons] : n \in 0..MaxSlice}

InitKeys == InitCoords

FromSlice ==
    \E slice \in Slices :
       /\ Ready
       /\ op' = <<"from_slice", "">>
       /\ res' = Keybinding_from_slice(slice)
       /\ given' = <<slice>>
       /\ obj' = IF res'.tag = "Ok" THEN res'.val ELSE obj
       /\ UNCHANGED <<debug, arg, a, b, steps, fixedVars>>

Keys ==
    /\ op[1] = "from_slice"
    /\ res.tag = "Ok"
    /\ op' = <<"keys", "">>
    /\ res' = Val(Keybinding_keys(obj))
    /\ UNCHANGED <<debug, arg, a, b, steps, fixedVars, builtVars>>

NextKeys == FromSlice \/ Keys

SpecKeys == InitKeys /\ [][NextKeys]_vars

(***************************************************************************)
(* Properties.  The bounds of the i48 range are written out here (2^47),   *)
(* independently of the constants MIN, MAX and MASK of the code.           *)
(***************************************************************************)
P47 == Pow2(47)

P48 == Pow2(48)

InRange48(v) == ZLeq(ZNeg(P47), v) /\ ZLess(v, P47)

\* the top 16 bits of a 64-bit word are zero
TopZero(w) == ZLeq(ZZero, w) /\ ZLess(w, P48)

\* the integer a stored word stands for: the word, read as 48 bits of two's
\* complement
Value(w) == IF ZLess(w, P47) THEN w ELSE ZSub(w, P48)

\* v is congruent to w modulo 2^48
Congruent48(v, w) == Low(ZSub(v, w), 3) = ZZero

Called(f) == op[1] = f

\* the call returned an i48
ReturnedI48 ==
    /\ op[1] \in {"new", "new_wrapping", "from_bits", "from_bits_wrapping", "from",
                  "try_from", "checked", "wrapping", "op", "op_assign", "neg",
                  "not", "int"}
    /\ res.tag \in {"Some", "Val", "Ok"}

\* C1: i48::new(x) returns a value exactly when -2^47 <= x <= 2^47 - 1, and then
\* new(x).as_i64() = x; for every other i64 x it returns None.
C1_NewExact ==
    Called("new") =>
        IF InRange48(arg) THEN res.tag = "Some" /\ as_i64(res.val) = arg
        ELSE res = None

\* new was called with x = 2^47 - 1 and returned Some
C1_Witness ==
    /\ Called("new") /\ arg = ZSub(P47, Z(1)) /\ res.tag = "Some"

\* C2: every i48 the safe operations make, through any sequence of them, has
\* a stored word whose top 16 bits are zero (to_bits() <= 0x0000_FFFF_FFFF_FFFF,
\* which is the hint of hint_bits_good), and as_i64() lies in [-2^47, 2^47 - 1].
WordGood(w) ==
    /\ TopZero(w)
    /\ ZLeq(to_bits(w), ZSub(P48, Z(1)))
    /\ hint_bits_good(w) = Val(w)
    /\ InRange48(as_i64(w))

C2_WordsGood ==
    /\ WordGood(a)
    /\ WordGood(b)
    /\ ReturnedI48 => WordGood(res.val)
    /\ res.tag # "UB"

\* two compound assignments were made, the second one wrapping past MAX
C2_Witness ==
    /\ steps = 2 /\ op = <<"op_assign", "add">> /\ res.tag = "Val"
    /\ Value(res.val) = ZNeg(P47)

\* C3: i48::new_wrapping(x) succeeds for every i64 x and returns the v in
\* [-2^47, 2^47 - 1] congruent to x modulo 2^48; new_wrapping(MAX + 1) = MIN and
\* new_wrapping(MIN - 1) = MAX.
C3_NewWrapping ==
    Called("new_wrapping") =>
        /\ res.tag = "Val"
        /\ InRange48(as_i64(res.val))
        /\ Congruent48(as_i64(res.val), arg)
        /\ arg = P47 => as_i64(res.val) = ZNeg(P47)
        /\ arg = ZSub(ZNeg(P47), Z(1)) => as_i64(res.val) = ZSub(P47, Z(1))

\* new_wrapping was called with MAX + 1
C3_Witness == Called("new_wrapping") /\ arg = P47 /\ res.tag = "Val"

\* q and r are the quotient and the remainder of va by vb, rounding to zero
IsTruncDiv(va, vb, q, r) ==
    /\ ZAdd(ZMul(q, vb), r) = va
    /\ ZLess(ZAbs(r), ZAbs(vb))
    /\ r = ZZero \/ IsNeg(r) = IsNeg(va)

\* q and r are the Euclidean quotient and remainder of va by vb
IsEuclidDiv(va, vb, q, r) ==
    /\ ZAdd(ZMul(q, vb), r) = va
    /\ ZLeq(ZZero, r)
    /\ ZLess(r, ZAbs(vb))

\* s is the integer square root of va
IsSqrt(va, s) ==
    /\ ZLeq(ZZero, s)
    /\ ZLeq(ZMul(s, s), va)
    /\ ZLess(va, ZMul(ZAdd(s, Z(1)), ZAdd(s, Z(1))))

\* the Euclidean quotient, from the truncated one
EuclidQuot(va, vb) ==
    LET q == ZQuot(va, vb)
    IN  IF ~IsNeg(ZRem(va, vb)) THEN q
        ELSE IF IsNeg(vb) THEN ZAdd(q, Z(1)) ELSE ZSub(q, Z(1))

\* the exact result of an operation on the integers va and vb, None where the
\* mathematics leaves it undefined
Exact(name, va, vb) ==
    CASE name = "add" -> Some(ZAdd(va, vb))
      [] name = "sub" -> Some(ZSub(va, vb))
      [] name = "mul" -> Some(ZMul(va, vb))
      [] name = "div" -> IF vb = ZZero THEN None ELSE Some(ZQuot(va, vb))
      [] name = "rem" -> IF vb = ZZero THEN None ELSE Some(ZRem(va, vb))
      [] name = "div_euclid" ->
            IF vb = ZZero THEN None ELSE Some(EuclidQuot(va, vb))
      [] name = "rem_euclid" ->
            IF vb = ZZero THEN None
            ELSE Some(ZSub(va, ZMul(EuclidQuot(va, vb), vb)))
      [] name = "abs" -> Some(IF IsNeg(va) THEN ZSub(ZZero, va) ELSE va)
      [] name = "neg" -> Some(ZSub(ZZero, va))
      [] name = "isqrt" -> IF IsNeg(va) THEN None ELSE Some(ZSqrt(va))

\* e is the exact result: the divisions are checked by multiplying back
ExactRight(name, va, vb, e) ==
    CASE name = "div" -> IsTruncDiv(va, vb, e, ZSub(va, ZMul(e, vb)))
      [] name = "rem" -> IsTruncDiv(va, vb, ZQuot(ZSub(va, e), vb), e)
      [] name = "div_euclid" -> IsEuclidDiv(va, vb, e, ZSub(va, ZMul(e, vb)))
      [] name = "rem_euclid" -> IsEuclidDiv(va, vb, ZQuot(ZSub(va, e), vb), e)
      [] name = "isqrt" -> IsSqrt(va, e)
      [] OTHER -> TRUE

\* C4: each checked operation returns Some(r), r the exact mathematical result,
\* when that result is defined and lies in [-2^47, 2^47 - 1], and None otherwise:
\* on 48-bit overflow (MAX + 1, MIN - 1, MIN / -1), on a zero divisor, on isqrt
\* of a negative value and on abs or neg of MIN.
C4_CheckedExact ==
    Called("checked") =>
        LET name == op[2]
            va == Value(a)
            vb == Value(b)
            e == Exact(name, va, vb)
        IN  /\ e.tag = "Some" => ExactRight(name, va, vb, e.val)
            /\ IF e.tag = "Some" /\ InRange48(e.val)
               THEN res.tag = "Some" /\ Value(res.val) = e.val
                    /\ as_i64(res.val) = e.val
               ELSE res = None
            /\ (name = "add" /\ va = ZSub(P47, Z(1)) /\ vb = Z(1)) => res = None
            /\ (name = "sub" /\ va = ZNeg(P47) /\ vb = Z(1)) => res = None
            /\ (name \in {"div", "div_euclid"} /\ va = ZNeg(P47) /\ vb = Z(-1))
                  => res = None
            /\ (IsDivision(name) /\ vb = ZZero) => res = None
            /\ (name = "isqrt" /\ IsNeg(va)) => res = None
            /\ (name \in {"abs", "neg"} /\ va = ZNeg(P47)) => res = None

\* checked_div(MIN, -1) was called and returned None
C4_Witness ==
    /\ op = <<"checked", "div">>
    /\ Value(a) = ZNeg(P47) /\ Value(b) = Z(-1)
    /\ res = None

\* C5: no wrapping operation fails or aborts: in a debug build and in a release
\* build, for all operands, the call returns an i48.
C5_WrappingNeverFails == Called("wrapping") => res.tag = "Val"

\* what a default operator returns in a debug build, from the checked form
Aborting(c) == IF c.tag = "Some" THEN Val(c.val) ELSE Panic

\* the checked and the wrapping form agree where the checked result exists
Agree(c, w) == c.tag = "Some" => w = Val(c.val)

\* C6: the operators +, -, *, /, %, unary - and the compound assignments: in a
\* debug build a op b is checked_op(a, b) when that is Some and aborts when it
\* is None; in a release build it is wrapping_op(a, b); the two agree whenever
\* the checked result exists.  An assignment stores the result in self.
C6_DualMode ==
    [][ /\ op'[1] \in {"op", "op_assign"} =>
             LET c == impl_checked_binop(op'[2], a, b)
                 w == impl_wrapping_binop(op'[2], a, b)
             IN  /\ res' = IF debug THEN Aborting(c) ELSE w
                 /\ Agree(c, w)
                 /\ op'[1] = "op_assign" =>
                       a' = IF res'.tag = "Val" THEN res'.val ELSE a
                 /\ op'[1] = "op" => a' = a
        /\ op'[1] = "neg" =>
             LET c == impl_checked_unop("neg", a)
                 w == wrapping_neg(FALSE, a)
             IN  /\ res' = IF debug THEN Aborting(c) ELSE w
                 /\ Agree(c, w)
      ]_vars

\* a release build made MAX += 1, which wrapped to MIN
C6_Witness ==
    /\ ~debug
    /\ op = <<"op_assign", "add">>
    /\ Value(b) = Z(1)
    /\ res.tag = "Val" /\ a = res.val /\ Value(a) = ZNeg(P47)

\* C7: i48::from(v).as_i64() = v for every v of i8, i16, i32, u8, u16, u32; for
\* v of i64, i128, isize, u64, u128, usize, i48::try_from(v) is Ok(w) with
\* w.as_i64() = v when -2^47 <= v <= 2^47 - 1 and the out-of-range error otherwise.
C7_Conversions ==
    /\ Called("from") => res.tag = "Val" /\ as_i64(res.val) = arg
                         /\ Value(res.val) = arg
    /\ Called("try_from") =>
          IF InRange48(arg)
          THEN res.tag = "Ok" /\ as_i64(res.val) = arg /\ Value(res.val) = arg
          ELSE res = Err

\* try_from(2^47 as u64) was refused
C7_Witness == op = <<"try_from", "u64">> /\ arg = P47 /\ res = Err

\* the six bytes, least significant first, make up the 64-bit word w
SixBytes(h, w) ==
    /\ Len(h) = 6
    /\ \A k \in 1..6 : h[k] \in 0..255
    /\ w[1] = h[1] + 256 * h[2]
    /\ w[2] = h[3] + 256 * h[4]
    /\ w[3] = h[5] + 256 * h[6]
    /\ \A k \in 4..ZLimbs : w[k] = 0

\* C8: a == b iff a.as_i64() = b.as_i64() iff a.cmp(b) is Equal iff the bytes
\* given to the hasher are equal; a < b iff a.as_i64() < b.as_i64(), so a negative
\* value is below a non-negative one although its stored word is larger; the
\* hasher gets exactly the 6 significant bytes.
C8_EqOrdHash ==
    Called("compare") =>
        LET r == res.val
            va == Value(a)
            vb == Value(b)
        IN  /\ va = as_i64(a) /\ vb = as_i64(b)
            /\ r.eq <=> va = vb
            /\ r.ne <=> va # vb
            /\ r.eq <=> r.cmp = "Equal"
            /\ r.eq <=> r.hash_self = r.hash_other
            /\ r.lt <=> ZLess(va, vb)
            /\ r.le <=> ZLeq(va, vb)
            /\ r.gt <=> ZLess(vb, va)
            /\ r.ge <=> ZLeq(vb, va)
            /\ r.cmp = "Less" <=> ZLess(va, vb)
            /\ r.cmp = "Greater" <=> ZLess(vb, va)
            /\ (IsNeg(va) /\ ~IsNeg(vb)) => r.lt /\ ZLess(to_bits(b), to_bits(a))
            /\ SixBytes(r.hash_self, a)
            /\ SixBytes(r.hash_other, b)

\* -1 was compared with 0
C8_Witness ==
    /\ Called("compare") /\ Value(a) = Z(-1) /\ Value(b) = ZZero
    /\ res.val.lt /\ res.val.cmp = "Less"

P63 == Pow2(63)

\* the integer v, clamped to the i64 range
Clamp(v) ==
    IF ZLeq(P63, v) THEN ZSub(P63, Z(1))
    ELSE IF ZLess(v, ZNeg(P63)) THEN ZNeg(P63) ELSE v

\* one step of the fold on integers: the exact sum or difference, clamped
SatStep(x, name, y) == Clamp(IF name = "add" THEN ZAdd(x, y) ELSE ZSub(x, y))

\* the left-to-right saturating fold of the first n steps of a trail of words
RECURSIVE SatFold(_, _, _)
SatFold(x, t, n) ==
    IF n = 0 THEN x ELSE SatStep(SatFold(x, t, n - 1), t[n][1], t[n][2])

\* the same fold of the component c of a trail of vectors
RECURSIVE SatFoldAt(_, _, _, _)
SatFoldAt(x, t, n, c) ==
    IF n = 0 THEN x ELSE SatStep(SatFoldAt(x, t, n - 1, c), t[n][1], t[n][2][c])

Components == {"x", "y", "z"}

\* C9: for every i48 int and every Fract frac, from_raw(int, frac).to_raw() is
\* (int, frac); and for every FixedPoint v, from_raw(v.int(), v.fract()) is v.
C9_RawRoundTrip ==
    /\ op = <<"from_raw", "to_raw">> => res = Val(trail[1])
    /\ op = <<"to_raw", "from_raw">> => res = Val(fx) /\ trail[1][1] = fx

\* the round trip of the FixedPoint whose word is i64::MIN
C9_Witness ==
    /\ op = <<"to_raw", "from_raw">> /\ fx = ZNeg(P63) /\ res = Val(fx)

\* C10: the raw word of a + b is clamp(a.raw + b.raw, i64::MIN, i64::MAX) and that
\* of a - b is clamp(a.raw - b.raw, i64::MIN, i64::MAX), never wrapped and never
\* an abort; after a run of += and -= on a FixedPoint, and of += (and -=) on an
\* AbsoluteCoord or a FixedPointVec3, each component is the left-to-right
\* saturating fold of its own operands, whatever the other components did.
C10_Saturating ==
    /\ Called("fixed_op") =>
          res = Val(SatStep(fx, trail[1][1], trail[1][2]))
    /\ Called("fixed") =>
          fx = SatFold(origin.fx, trail, Len(trail)) /\ res = Val(fx)
    /\ Called("vec3") =>
          /\ res = Val(v3)
          /\ \A c \in Components :
                v3[c] = SatFoldAt(origin.vec[c], trail, Len(trail), c)
    /\ Called("coord") =>
          /\ res = Val(pos)
          /\ \A c \in Components :
                pos[c] = SatFoldAt(origin.vec[c], trail, Len(trail), c)

\* an AbsoluteCoord whose x saturated at i64::MAX in the second += while its y
\* and z did not
C10_Witness ==
    /\ Called("coord") /\ steps = 2
    /\ pos.x = ZSub(P63, Z(1))
    /\ ZLeq(P63, ZAdd(ZAdd(origin.vec.x, trail[1][2].x), trail[2][2].x))
    /\ pos.y = ZAdd(ZAdd(origin.vec.y, trail[1][2].y), trail[2][2].y)
    /\ pos.z = ZAdd(ZAdd(origin.vec.z, trail[1][2].z), trail[2][2].z)
\* v / 65536 rounded toward zero, by shifting: the floor, and one more when v
\* is negative and not a multiple of 65536
TruncScale(v) ==
    IF IsNeg(v) /\ v[1] # 0 THEN ZAdd(ShrLimbs(v, 1), Z(1)) ELSE ShrLimbs(v, 1)

\* C11: the raw word of a * b is clamp(trunc(a.raw * b.raw / 65536), i64::MIN,
\* i64::MAX): the product is exact (it fits the i128), the division by 65536
\* rounds toward zero, nothing wraps and nothing aborts, in either build.
C11_MulClamped ==
    Called("fixed_mul") =>
        LET p == ZMul(fx, trail[1][2])
        IN  /\ ZLess(ZNeg(Pow2(127)), p) /\ ZLess(p, Pow2(127))
            /\ res = Val(Clamp(TruncScale(p)))

\* (-1 raw) * (1 raw): the product -1 / 65536 rounds toward zero, to 0
C11_Witness ==
    /\ Called("fixed_mul") /\ fx = Z(-1) /\ trail[1][2] = Z(1)
    /\ res = Val(ZZero)

\* what C12 says x / y is, for the raw words x and y # 0
DivSays(x, y, r) ==
    LET q == ZQuot(x, y)
        rem == ZSub(x, ZMul(q, y))
        w == Clamp(ZMul(q, Pow2(16)))
    IN  /\ IsTruncDiv(x, y, q, rem)
        /\ r = Val(w)
        /\ (rem = ZZero /\ InRange48(q)) => r.val = from_int(new(q).val)
        /\ (w = ZMul(q, Pow2(16))) => fract(r.val) = ZZero

\* C12 as stated: for every y # 0, x / y is saturating((x.raw quot y.raw) * 65536)
C12_DivAsStated ==
    (Called("fixed_div") /\ trail[1][2] # ZZero) => DivSays(fx, trail[1][2], res)

\* C12 away from the one aborting input: for y # 0, and not x.raw = i64::MIN
\* with y.raw = -1, x / y is saturating((x.raw quot y.raw) * 65536), the quotient rounded
\* toward zero; when x.raw is a multiple of y.raw and the quotient q fits 48 bits
\* it is from_int(q); when it is not saturated its fract() is 0; and
\* from_int(2) / from_fract(HALF) is from_int(4).
C12_DivRescaled ==
    (Called("fixed_div") /\ trail[1][2] # ZZero
       /\ ~(fx = ZNeg(P63) /\ trail[1][2] = Z(-1))) =>
        /\ DivSays(fx, trail[1][2], res)
        /\ (fx = from_int(new(Z(2)).val) /\ trail[1][2] = from_fract(Pow2(15)))
              => res = Val(from_int(new(Z(4)).val))

\* from_int(2) / from_fract(HALF) was computed
C12_Witness ==
    /\ Called("fixed_div") /\ fx = Pow2(17) /\ trail[1][2] = Pow2(15)
    /\ res = Val(Pow2(18))

\* C13: for every x and every y with y.raw # 0, x / y returns a FixedPoint in
\* [MIN, MAX] and does not abort, in either build.
C13_DivNotFatal ==
    (Called("fixed_div") /\ trail[1][2] # ZZero) =>
        /\ res.tag = "Val"
        /\ ZLeq(ZNeg(P63), res.val) /\ ZLess(res.val, P63)
P35 == Pow2(35)

P31 == Pow2(31)

\* the axis value of a stored i48 word lies within the representable chunks
InChunks(w) == ZLeq(ZNeg(P35), Value(w)) /\ ZLess(Value(w), P35)

\* the axis value a chunk index and an offset stand for: 16 chunk + offset
AxisOf(chunk, off) == ZAdd(ZMul(chunk, Z(16)), Z(off))

\* the round trip of one axis: w went in, chunk and off were stored
AxisKept(w, chunk, off) ==
    /\ off \in 0..15
    /\ ZLeq(ZNeg(P31), chunk) /\ ZLess(chunk, P31)
    /\ AxisOf(chunk, off) = Value(w)

\* C14: for an axis value v with -2^35 <= v <= 2^35 - 1 and every u8 y,
\* AbsoluteBlockCoord::from_xyz(x, y, z) stores v as 16 chunk + offset with the
\* offset in [0, 16) (also for a negative v), and x(), y(), z() and xyz() give
\* back x, y and z; this holds for each horizontal axis whatever the other one is.
C14_BlockRoundTrip ==
    /\ Called("abs_from_xyz") =>
          /\ res.tag = "Val"
          /\ AbsoluteBlockCoord_y(obj) = given[2]
          /\ InChunks(given[1]) =>
                AxisKept(given[1], obj.chunk.x, BlockCoord_x(obj.block_coord))
          /\ InChunks(given[3]) =>
                AxisKept(given[3], obj.chunk.z, BlockCoord_z(obj.block_coord))
    /\ (Called("abs_x") /\ InChunks(given[1])) => res = Val(given[1])
    /\ (Called("abs_z") /\ InChunks(given[3])) => res = Val(given[3])
    /\ Called("abs_xyz") =>
          /\ res.tag = "Val"
          /\ res.val[2] = given[2]
          /\ InChunks(given[1]) => res.val[1] = given[1]
          /\ InChunks(given[3]) => res.val[3] = given[3]

\* x = -17 was read back while z = i48::MAX saturated
C14_Witness ==
    /\ Called("abs_x")
    /\ given[1] = new(Z(-17)).val /\ given[3] = new(MAX).val
    /\ res = Val(given[1])
    /\ obj.chunk.x = Z(-2) /\ BlockCoord_x(obj.block_coord) = 15

\* what an axis reads back as when w went in
Saturated(w) ==
    IF ZLeq(P35, Value(w)) THEN ZSub(P35, Z(1))
    ELSE IF ZLess(Value(w), ZNeg(P35)) THEN ZNeg(P35) ELSE Value(w)

\* the calls on an AbsoluteBlockCoord
AbsCalls == {"abs_from_xyz", "abs_x", "abs_z", "abs_xyz"}

\* C15: an axis value whose chunk index is above the i32 range is stored as chunk
\* i32::MAX with offset 15 and reads back as 2^35 - 1; one below the range as
\* chunk i32::MIN with offset 0 and reads back as -2^35; and for every i48 x, z
\* and u8 y, from_xyz, x(), z() and xyz() return (no abort) the exact value
\* 16 chunk + offset (no wrap), in both builds.
C15_Saturates ==
    /\ op[1] \in AbsCalls => res.tag = "Val"
    /\ Called("abs_from_xyz") =>
          /\ ZLeq(P35, Value(given[1])) =>
                obj.chunk.x = ZSub(P31, Z(1)) /\ BlockCoord_x(obj.block_coord) = 15
          /\ ZLess(Value(given[1]), ZNeg(P35)) =>
                obj.chunk.x = ZNeg(P31) /\ BlockCoord_x(obj.block_coord) = 0
          /\ ZLeq(P35, Value(given[3])) =>
                obj.chunk.z = ZSub(P31, Z(1)) /\ BlockCoord_z(obj.block_coord) = 15
          /\ ZLess(Value(given[3]), ZNeg(P35)) =>
                obj.chunk.z = ZNeg(P31) /\ BlockCoord_z(obj.block_coord) = 0
    /\ Called("abs_x") =>
          /\ TopZero(res.val)
          /\ Value(res.val) = Saturated(given[1])
          /\ Value(res.val) = AxisOf(obj.chunk.x, BlockCoord_x(obj.block_coord))
    /\ Called("abs_z") =>
          /\ TopZero(res.val)
          /\ Value(res.val) = Saturated(given[3])
          /\ Value(res.val) = AxisOf(obj.chunk.z, BlockCoord_z(obj.block_coord))
    /\ Called("abs_xyz") =>
          /\ Value(res.val[1]) = Saturated(given[1])
          /\ Value(res.val[3]) = Saturated(given[3])

\* x = i48::MAX read back as 2^35 - 1 and z = i48::MIN as -2^35, validated build
C15_Witness ==
    /\ Called("abs_xyz") /\ debug
    /\ given[1] = new(MAX).val /\ given[3] = new(MIN).val
    /\ Value(res.val[1]) = ZSub(P35, Z(1)) /\ Value(res.val[3]) = ZNeg(P35)

\* C19: ChunkRelativeXZ::from_xz(x, z) with x, z in 0..16 is the byte with x in
\* the high nibble and z in the low one: x() and z() give x and z back, and no
\* other pair of 0..16 gives the same byte; BlockCoord::from_xyz(x, y, z)
\* moreover gives back y() = y for every u8 y; in a validated build from_xz
\* aborts when x >= 16 or z >= 16.
C19_NibblePacking ==
    /\ (Called("rel_from_xz") /\ given[1] < 16 /\ given[2] < 16) =>
          /\ res.tag = "Val"
          /\ res.val \in 0..255
          /\ res.val \div 16 = given[1] /\ res.val % 16 = given[2]
          /\ ChunkRelativeXZ_x(res.val) = given[1]
          /\ ChunkRelativeXZ_z(res.val) = given[2]
          /\ \A x \in 0..15, z \in 0..15 :
                ChunkRelativeXZ_from_xz(debug, x, z) = res => <<x, z>> = given
    /\ (Called("rel_from_xz") /\ debug /\ (given[1] >= 16 \/ given[2] >= 16)) =>
          res.tag = "Panic"
    /\ (Called("block_from_xyz") /\ given[1] < 16 /\ given[3] < 16) =>
          /\ res.tag = "Val"
          /\ BlockCoord_xyz(obj) = given
          /\ BlockCoord_y(obj) = given[2]
    /\ (Called("block_from_xyz") /\ debug /\ (given[1] >= 16 \/ given[3] >= 16)) =>
          res.tag = "Panic"

\* from_xz(10, 5) is the byte 0xA5
C19_Witness ==
    /\ Called("rel_from_xz") /\ given = <<10, 5>>
    /\ res = Val(165)
\* the digit a character stands for
Numerals ==
    [c \in {"0", "1", "2", "3", "4", "5", "6", "7", "8", "9"} |->
        CASE c = "0" -> 0 [] c = "1" -> 1 [] c = "2" -> 2 [] c = "3" -> 3
          [] c = "4" -> 4 [] c = "5" -> 5 [] c = "6" -> 6 [] c = "7" -> 7
          [] c = "8" -> 8 [] c = "9" -> 9]

Letters(uppercase) ==
    IF uppercase THEN [A |-> 10, B |-> 11, C |-> 12, D |-> 13, E |-> 14, F |-> 15]
    ELSE [a |-> 10, b |-> 11, c |-> 12, d |-> 13, e |-> 14, f |-> 15]

\* c is a digit of the radix, written in the case asked for
IsDigit(c, radix, uppercase) ==
    \/ c \in DOMAIN Numerals /\ Numerals[c] < radix
    \/ c \in DOMAIN Letters(uppercase) /\ Letters(uppercase)[c] < radix

DigitOf(c, uppercase) ==
    IF c \in DOMAIN Numerals THEN Numerals[c] ELSE Letters(uppercase)[c]

\* the number the digits ds write in a radix (an integer: the point is dropped)
RECURSIVE Written(_, _, _)
Written(ds, radix, uppercase) ==
    IF ds = <<>> THEN ZZero
    ELSE ZAdd(MulSmall(Written(SubSeq(ds, 1, Len(ds) - 1), radix, uppercase), radix),
              Z(DigitOf(ds[Len(ds)], uppercase)))

\* n radix^k, for n >= 0
RECURSIVE Scaled(_, _, _)
Scaled(n, radix, k) ==
    IF k = 0 THEN n ELSE MulSmall(Scaled(n, radix, k - 1), radix)

\* what was written after the first '.'
RECURSIVE AfterPoint(_)
AfterPoint(out) ==
    IF out = <<>> THEN <<>>
    ELSE IF out[1] = "." THEN SubSeq(out, 2, Len(out))
    ELSE AfterPoint(SubSeq(out, 2, Len(out)))

\* ds are digits, and they are the expansion of n / 65536 cut (not rounded)
\* after Len(ds) digits: Written(ds) = floor(n radix^Len(ds) / 65536)
IsTruncation(ds, n, radix, uppercase) ==
    /\ \A i \in 1..Len(ds) : IsDigit(ds[i], radix, uppercase)
    /\ ZLeq(ShlLimbs(Written(ds, radix, uppercase), 1), Scaled(n, radix, Len(ds)))
    /\ ZLess(Scaled(n, radix, Len(ds)),
             ShlLimbs(ZAdd(Written(ds, radix, uppercase), Z(1)), 1))

\* 65536 (d_1 / R + .. + d_i / R^i + r / (65536 R^i)) for the digits ds, when
\* that is an integer, and -1 when it is not: from the last digit back,
\* 65536 (d / R + x / (65536 R)) = (65536 d + x) / R
RECURSIVE Numerator(_, _, _, _, _)
Numerator(ds, i, r, radix, uppercase) ==
    IF i = 0 THEN r
    ELSE IF (65536 * DigitOf(ds[i], uppercase) + r) % radix # 0 THEN -1
    ELSE Numerator(ds, i - 1, (65536 * DigitOf(ds[i], uppercase) + r) \div radix,
                   radix, uppercase)

\* ds is the whole expansion of n / 65536: digits of the radix with
\* sum(d_i / R^i) = n / 65536 exactly, the last one not 0
IsExpansion(ds, n, radix, uppercase) ==
    /\ ds # <<>>
    /\ \A i \in 1..Len(ds) : IsDigit(ds[i], radix, uppercase)
    /\ Low(n, 1) = n
    /\ Numerator(ds, Len(ds), 0, radix, uppercase) = n[1]
    /\ ds[Len(ds)] # "0"

\* a formatting call was made with the precision Some(p)
WithPrecision == op[1] \in {"fract_fmt", "fixed_fmt"} /\ given[3].tag = "Some"

\* the fraction formatted by the last formatting call
Fraction == Low(given[1], 1)

\* C16: with a precision p, formatting a Fract or a FixedPoint writes exactly p
\* digits after the point, for every value and every p >= 0: the expansion of
\* the fraction cut (not rounded) after p digits, zeros standing where the
\* expansion has ended.
C16_PrecisionDigits ==
    WithPrecision =>
        /\ res.tag = "Val"
        /\ Len(AfterPoint(res.val)) = given[3].val
        /\ IsTruncation(AfterPoint(res.val), Fraction,
                        Traits[given[2]].base, Traits[given[2]].uppercase)

\* C16 for the values whose fraction is not 0
C16_NonZeroPrecisionDigits ==
    (WithPrecision /\ Fraction # ZZero) =>
        /\ res.tag = "Val"
        /\ Len(AfterPoint(res.val)) = given[3].val
        /\ IsTruncation(AfterPoint(res.val), Fraction,
                        Traits[given[2]].base, Traits[given[2]].uppercase)

\* format!("{:.4}", 1.5) wrote "1.5000"
C16_Witness ==
    /\ Called("fixed_fmt") /\ given = <<Z(98304), "Display", Some(4)>>
    /\ res = Val(<<"1", ".", "5", "0", "0", "0">>)

\* C17: without a precision, formatting Fract(n) in radix 2, 8, 10 or 16 writes
\* "0." and then, for n # 0, the digits d1..dk with sum(d_i / R^i) = n / 65536
\* exactly, each a digit of the radix and the last one not 0 (no digit index is
\* out of the table: the call returns), and for n = 0 the one digit 0; Fract(0)
\* prints "0.0", Fract(32768) "0.5" and Fract(8000) "0.1220703125".
C17_ExactExpansion ==
    (Called("fract_fmt") /\ given[3].tag = "None") =>
        /\ res.tag = "Val"
        /\ SubSeq(res.val, 1, 2) = <<"0", ".">>
        /\ given[1] = ZZero => res.val = <<"0", ".", "0">>
        /\ given[1] # ZZero =>
              IsExpansion(SubSeq(res.val, 3, Len(res.val)), given[1],
                          Traits[given[2]].base, Traits[given[2]].uppercase)
        /\ (given[1] = Pow2(15) /\ given[2] = "Display") =>
              res.val = <<"0", ".", "5">>
        /\ (given[1] = Z(8000) /\ given[2] = "Display") =>
              res.val = <<"0", ".", "1", "2", "2", "0", "7", "0", "3", "1", "2", "5">>

\* Fract(8000).to_string() was "0.1220703125"
C17_Witness ==
    /\ Called("fract_fmt") /\ given = <<Z(8000), "Display", None>>
    /\ res = Val(<<"0", ".", "1", "2", "2", "0", "7", "0", "3", "1", "2", "5">>)

\* C18: for a u16 n > 1, Fract::recip(n) is the Fract with the word
\* floor(65536 / n), which fits 16 bits, and recip(2) is one half (32768); for
\* n = 0 and n = 1 the call returns no value.
C18_Recip ==
    Called("recip") =>
        /\ ZLess(Z(1), given[1]) =>
              /\ res.tag = "Val"
              /\ ZLeq(ZZero, res.val) /\ ZLess(res.val, Pow2(16))
              /\ ZLeq(ZMul(res.val, given[1]), Pow2(16))
              /\ ZLess(Pow2(16), ZMul(ZAdd(res.val, Z(1)), given[1]))
        /\ given[1] = Z(2) => res = Val(Pow2(15))
        /\ ZLeq(given[1], Z(1)) => res.tag = "Panic"

\* recip(3) is 21845
C18_Witness == Called("recip") /\ given[1] = Z(3) /\ res = Val(Z(21845))
\* what C20 says of the lengths accepted
SliceAnswer(accepted) ==
    /\ Called("from_slice") =>
          /\ Len(given[1]) \in accepted =>
                res.tag = "Ok" /\ Keybinding_keys(res.val) = given[1]
          /\ Len(given[1]) \notin accepted => res = InvalidLength(Len(given[1]))
    /\ Called("keys") => res = Val(given[1])

\* C20: Keybinding::from_slice accepts every slice of length 1 to 8 inclusive,
\* and keys() of the binding yields the elements of the slice in order; it
\* returns Err(InvalidLength(len)) exactly for the length 0 and the lengths
\* above 8.
C20_LengthsAccepted == SliceAnswer(1..8)

\* C20 with the lengths 1 to 7
C20_UpToSeven == SliceAnswer(1..7)

\* keys() of a binding of two keys gave them back in order
C20_Witness ==
    /\ Called("keys") /\ given[1] = <<"KeyW", "Space">>
    /\ res = Val(<<"KeyW", "Space">>)
(***************************************************************************)
(* The settings saver (voxel-engine/src/settings.rs, voxel-runtime/src/    *)
(* sync.rs).  obj is the world: the data of the ArcSwap, the settings      *)
(* file, the GameSettingsHandle clones the callers hold, the strong        *)
(* reference the saver thread holds between its upgrade and the end of     *)
(* its pass, the Notify shared by Parker and Unparker, the place and the   *)
(* locals of the saver thread, and the place of the caller in store.       *)
(***************************************************************************)
\* the calls of store in a run
MaxStores == 2

\* the file writes that fail in a run
MaxFailures == 1

\* the clones of the handle alive at once
MaxHandles == 2

\* the values of GameSettings
Settings == {"default", "s1", "s2"}

\* Notify::new: no permit, nobody waiting
Notify_new == [permit |-> FALSE, waiter |-> "none"]

\* Notify::notify_one: the waiting task is woken; with nobody waiting a
\* permit is left (one at most)
Notify_notify_one(n) ==
    IF n.waiter = "waiting" THEN [n EXCEPT !.waiter = "notified"]
    ELSE [n EXCEPT !.permit = TRUE]

\* Unparker::unpark: self.0.notify_one()
Unparker_unpark(n) == Notify_notify_one(n)

\* a drop of the Unparker that notifies nobody
Unparker_drop_silent(n) == n

\* impl Drop for Unparker: self.unpark()
Unparker_drop(n) == Unparker_unpark(n)

\* Parker::park is polled: self.0.notified().await takes the permit or the
\* notification when there is one, and waits otherwise
Parker_park(n) ==
    IF n.waiter = "notified" THEN [ready |-> TRUE, notify |-> [n EXCEPT !.waiter = "none"]]
    ELSE IF n.permit THEN [ready |-> TRUE, notify |-> [n EXCEPT !.permit = FALSE]]
    ELSE [ready |-> FALSE, notify |-> [n EXCEPT !.waiter = "waiting"]]

\* make_parker: one Notify behind the Parker and the Unparker
make_parker == Notify_new

\* the strong references to the GameSettingsHandleInner
Strong(w) == w.handles + (IF w.held THEN 1 ELSE 0)

\* a strong reference of w is dropped by the saver thread: with the last one
\* the inner value is dropped, and the Unparker in it
Released(w) ==
    IF w.handles = 0 /\ w.unparker = "alive"
    THEN [w EXCEPT !.held = FALSE, !.unparker = "dropped",
                   !.notify = Unparker_drop(w.notify)]
    ELSE [w EXCEPT !.held = FALSE]

\* save(&prev): the file is written, or the write fails; what it returns is
\* res.is_err()
Saved(w, failed, place) ==
    [w EXCEPT !.file = IF failed THEN @ ELSE w.prev,
              !.last_save_err = failed,
              !.failures = IF failed THEN @ + 1 ELSE @,
              !.saves_since_sleep = @ + 1,
              !.saver = place]

\* load, up to the spawn: the settings read from the file, or the default
\* ones, one handle, and the saver thread about to run
InitSaver ==
    /\ debug = FALSE
    /\ AtRest
    /\ op = NoCall
    /\ res = None
    /\ given = <<>>
    /\ \E file \in {"none", "s1"} :
          obj = [data |-> IF file = "none" THEN "default" ELSE file,
                 file |-> file,
                 handles |-> 1, held |-> FALSE, unparker |-> "alive",
                 notify |-> make_parker,
                 saver |-> "start", prev |-> "none", last_save_err |-> FALSE,
                 user |-> "idle", pending |-> "none",
                 stored |-> FALSE, stores |-> 0, failures |-> 0,
                 saves_since_sleep |-> 0]

\* a step of the thread named who, to the world w
Does(who, what, w) ==
    /\ obj' = w
    /\ op' = <<who, what>>
    /\ UNCHANGED <<debug, arg, a, b, res, steps, fixedVars, given>>

\* GameSettingsHandle::clone
HandleClone ==
    /\ obj.handles >= 1 /\ obj.handles < MaxHandles
    /\ Does("caller", "clone", [obj EXCEPT !.handles = @ + 1])

\* a GameSettingsHandle is dropped (not the one a store is running on); with
\* the last strong reference gone the inner value is about to be dropped
HandleDrop ==
    /\ obj.handles >= 1
    /\ IF obj.user = "idle" THEN TRUE ELSE obj.handles > 1
    /\ Does("caller", "drop",
            IF obj.handles = 1 /\ ~obj.held
            THEN [obj EXCEPT !.handles = 0, !.unparker = "dropping"]
            ELSE [obj EXCEPT !.handles = @ - 1])

\* the inner value is dropped by the caller that dropped the last handle:
\* impl Drop for Unparker
UnparkerDrop ==
    /\ obj.unparker = "dropping"
    /\ Does("caller", "unparker_drop",
            [obj EXCEPT !.unparker = "dropped", !.notify = Unparker_drop(obj.notify)])

\* GameSettingsHandle::store, the test: if *self.load() != settings
StoreTest ==
    \E settings \in Settings :
       /\ obj.user = "idle" /\ obj.handles >= 1
       /\ obj.stores < MaxStores
       /\ Does("caller", "store",
               IF obj.data # settings
               THEN [obj EXCEPT !.user = "swap", !.pending = settings, !.stores = @ + 1]
               ELSE [obj EXCEPT !.stores = @ + 1])

\* GameSettingsHandle::store: self.0.data.store(Arc::new(settings))
StoreSwap ==
    /\ obj.user = "swap"
    /\ Does("caller", "swap",
            [obj EXCEPT !.data = obj.pending, !.stored = TRUE, !.user = "unpark"])

\* GameSettingsHandle::store: self.0.modified.unpark()
StoreUnpark ==
    /\ obj.user = "unpark"
    /\ Does("caller", "unpark",
            [obj EXCEPT !.notify = Unparker_unpark(obj.notify), !.user = "idle"])

\* the saver thread starts: settings_handle.upgrade()?
SaverStart ==
    /\ obj.saver = "start"
    /\ Does("saver", "start",
            IF Strong(obj) > 0 THEN [obj EXCEPT !.held = TRUE, !.saver = "load"]
            ELSE [obj EXCEPT !.saver = "exited"])

\* prev = handle.data.load_full(), and the handle is dropped
SaverLoad ==
    /\ obj.saver = "load"
    /\ Does("saver", "load",
            Released([obj EXCEPT !.prev = obj.data, !.saver = "first_save"]))

\* let mut last_save_err = save(&prev)
SaverFirstSave ==
    \E failed \in BOOLEAN :
       /\ obj.saver = "first_save"
       /\ IF failed THEN obj.failures < MaxFailures ELSE TRUE
       /\ Does("saver", "save", Saved(obj, failed, "sleep"))

\* sleep(Duration::from_secs(10)).await is over
SaverSlept ==
    /\ obj.saver = "sleep"
    /\ Does("saver", "slept", [obj EXCEPT !.saves_since_sleep = 0, !.saver = "park"])

\* parker.park().await is polled: it is ready, or the thread waits
SaverPark ==
    /\ obj.saver = "park"
    /\ Does("saver", "park",
            [obj EXCEPT !.notify = Parker_park(obj.notify).notify,
                        !.saver = IF Parker_park(obj.notify).ready
                                  THEN "upgrade" ELSE "parked"])

\* the waiting thread was notified: park returns
SaverWoken ==
    /\ obj.saver = "parked"
    /\ obj.notify.waiter = "notified"
    /\ Does("saver", "woken",
            [obj EXCEPT !.notify = Parker_park(obj.notify).notify, !.saver = "upgrade"])

\* let handle = GameSettingsHandle(settings_handle.upgrade()?)
SaverUpgrade ==
    /\ obj.saver = "upgrade"
    /\ Does("saver", "upgrade",
            IF Strong(obj) > 0 THEN [obj EXCEPT !.held = TRUE, !.saver = "compare"]
            ELSE [obj EXCEPT !.saver = "exited"])

\* current = handle.load(); changed = *current != *prev; and, when there is
\* something to save, prev = current.load_full() if changed
SaverCompare ==
    /\ obj.saver = "compare"
    /\ Does("saver", "compare",
            IF obj.last_save_err \/ obj.data # obj.prev
            THEN [obj EXCEPT !.prev = obj.data, !.saver = "save"]
            ELSE [obj EXCEPT !.saver = "release"])

\* last_save_err = save(&prev)
SaverSave ==
    \E failed \in BOOLEAN :
       /\ obj.saver = "save"
       /\ IF failed THEN obj.failures < MaxFailures ELSE TRUE
       /\ Does("saver", "save", Saved(obj, failed, "release"))

\* the end of the pass: handle is dropped
SaverRelease ==
    /\ obj.saver = "release"
    /\ Does("saver", "release", Released([obj EXCEPT !.saver = "sleep"]))

CallerStep ==
    HandleClone \/ HandleDrop \/ UnparkerDrop \/ StoreTest \/ StoreSwap \/ StoreUnpark

SaverStep ==
    \/ SaverStart \/ SaverLoad \/ SaverFirstSave \/ SaverSlept \/ SaverPark
    \/ SaverWoken \/ SaverUpgrade \/ SaverCompare \/ SaverSave \/ SaverRelease

NextSaver == CallerStep \/ SaverStep

SpecSaver == InitSaver /\ [][NextSaver]_vars

\* the saver thread runs on while it is not waiting, a timer runs out, and a
\* caller that is in store or in a drop goes on to its end; a caller need
\* not call anything
SpecSaverFair ==
    /\ SpecSaver
    /\ WF_vars(SaverStep)
    /\ WF_vars(UnparkerDrop \/ StoreSwap \/ StoreUnpark)

(***************************************************************************)
(* Controls: key events, new_frame and lost_focus, in any order.  obj is   *)
(* the Controls, trail the events so far.                                  *)
(***************************************************************************)
\* the events of a run
MaxEvents == 5

\* the keys that send events: the key of MainMenu, the other key of Exit, and
\* the key of WalkForwards
EventKeys == {"Escape", "Backspace", "KeyW"}

InitControls ==
    /\ debug = FALSE
    /\ AtRest
    /\ op = NoCall
    /\ res = None
    /\ given = <<>>
    /\ obj = Controls_default

\* one more call on the Controls
Event(ev, after) ==
    /\ Len(trail) < MaxEvents
    /\ obj' = after
    /\ trail' = Append(trail, ev)
    /\ op' = <<"controls", ev[1]>>
    /\ UNCHANGED <<debug, arg, a, b, res, steps, fx, pos, v3, origin, given>>

\* update with a key event
KeyEvent ==
    \E code \in EventKeys, state \in {"Pressed", "Released"} :
       Event(<<state, code>>, Controls_update_mkb_buttons(obj, code, state))

NewFrame == Event(<<"new_frame", "">>, Controls_new_frame(obj))

LostFocus == Event(<<"lost_focus", "">>, Controls_lost_focus(obj))

NextControls == KeyEvent \/ NewFrame \/ LostFocus

SpecControls == InitControls /\ [][NextControls]_vars

(***************************************************************************)
(* The wrapping operations of i48, against the integers.                   *)
(***************************************************************************)
\* the integer of [-2^47, 2^47 - 1] congruent to e modulo 2^48
Reduced48(e) == Value(Low(e, 3))

\* C21: whenever a wrapping operation returns, it returns the exact
\* mathematical result reduced modulo 2^48 into [-2^47, 2^47 - 1]: the sum, the
\* difference, the product (the wrap of the 64-bit intermediate leaves the low
\* 48 bits alone), the quotients and remainders, -a and |a|; so
\* wrapping_neg(MIN), wrapping_abs(MIN) and wrapping_div(MIN, -1) are MIN.
C21_WrappingReduced ==
    (Called("wrapping") /\ res.tag = "Val") =>
        LET name == op[2]
            va == Value(a)
            vb == Value(b)
            e == Exact(name, va, vb)
            r == Value(res.val)
        IN  /\ e.tag = "Some"
            /\ ExactRight(name, va, vb, e.val)
            /\ InRange48(r)
            /\ Congruent48(r, e.val)
            /\ r = Reduced48(e.val)
            /\ as_i64(res.val) = r
            /\ (name \in {"neg", "abs"} /\ va = ZNeg(P47)) => r = ZNeg(P47)
            /\ (name = "div" /\ va = ZNeg(P47) /\ vb = Z(-1)) => r = ZNeg(P47)

\* wrapping_mul returned, on two operands whose product does not fit 64 bits
C21_Witness ==
    /\ op = <<"wrapping", "mul">>
    /\ res.tag = "Val"
    /\ Value(a) = ZNeg(P47) /\ Value(b) = ZNeg(P47)
(***************************************************************************)
(* The arithmetic of Fract, against the integers.                          *)
(***************************************************************************)
\* q is the quotient of n by d rounded down, n >= 0 and d > 0
IsFloor(n, d, q) == ZLeq(ZMul(q, d), n) /\ ZLess(n, ZMul(ZAdd(q, Z(1)), d))

\* C22: a * b on two Fract of magnitudes ma and mb returns, in every build, the
\* magnitude floor(ma * mb / 65536); the product ma * mb fits 32 bits, and the
\* result is at most min(ma, mb), so it fits 16 bits and stays below 1.
C22_FractMul ==
    Called("fract_mul") =>
        LET ma == given[1]
            mb == given[2]
        IN  /\ ZLess(ZMul(ma, mb), Pow2(32))
            /\ res.tag = "Val"
            /\ IsFloor(ZMul(ma, mb), Pow2(16), res.val)
            /\ ZLeq(res.val, ma) /\ ZLeq(res.val, mb)
            /\ ZLeq(ZZero, res.val) /\ ZLess(res.val, Pow2(16))

\* the two largest magnitudes were multiplied
C22_Witness ==
    /\ Called("fract_mul")
    /\ given = <<Ones(16), Ones(16)>>
    /\ res = Val(Z(65534))

\* C23: a / b on two Fract, b not 0, returns the FixedPoint of the quotient of the
\* two fractions: whenever ma * 65536 is exactly divisible by mb, the raw word of
\* the result is ma * 65536 / mb.
C23_FractDivQuotient ==
    Called("fract_div") =>
        LET ma == given[1]
            mb == given[2]
        IN  (mb # ZZero /\ ZRem(ZMul(ma, Pow2(16)), mb) = ZZero) =>
                /\ res.tag = "Val"
                /\ res.val = ZQuot(ZMul(ma, Pow2(16)), mb)

\* a / b on two Fract, b not 0, returns the quotient of the two magnitudes
\* rounded down to an integer, then scaled by 65536
C23_FractDivWhole ==
    Called("fract_div") =>
        LET ma == given[1]
            mb == given[2]
        IN  IF mb = ZZero THEN res = Panic
            ELSE /\ res.tag = "Val"
                 /\ Low(res.val, 1) = ZZero
                 /\ IsFloor(ma, mb, ShrLimbs(res.val, 1))

\* one quarter was divided by one half
C23_Witness ==
    /\ Called("fract_div")
    /\ given = <<Z(16384), Pow2(15)>>
    /\ res.tag = "Val"
(***************************************************************************)
(* The order of FixedPoint, against the integers and against its parts.    *)
(***************************************************************************)
\* (i, f) is the integer part, rounded down, and the fraction of the raw word v
IsFloorParts(v, i, f) ==
    /\ ZLeq(ZZero, f) /\ ZLess(f, Pow2(16))
    /\ ZAdd(ShlLimbs(as_i64(i), 1), f) = v
    /\ as_i64(i) = Value(i)

\* (i, f) comes before (j, g): i as a signed i48, f as an unsigned word
LexLess(i, f, j, g) == lt(i, j) \/ (eq(i, j) /\ ZLess(f, g))

\* C24: the comparisons of two FixedPoint are those of the raw i64 words, and
\* they agree, for negative and positive values alike, with the lexicographic
\* order of (int(), fract()), int() as a signed i48 and fract() as an unsigned
\* word; and int() * 65536 + fract() is the raw word, so int() is the floor.
C24_RawOrder ==
    Called("fixed_cmp") =>
        LET r == res.val
            x == fx
            y == trail[1][2]
        IN  /\ r.self_raw.tag = "Val" /\ r.other_raw.tag = "Val"
            /\ IsFloorParts(x, r.self_raw.val[1], r.self_raw.val[2])
            /\ IsFloorParts(y, r.other_raw.val[1], r.other_raw.val[2])
            /\ r.lt <=> ZLess(x, y)
            /\ r.le <=> ZLeq(x, y)
            /\ r.gt <=> ZLess(y, x)
            /\ r.ge <=> ZLeq(y, x)
            /\ r.eq <=> x = y
            /\ r.cmp = (IF ZLess(x, y) THEN "Less"
                        ELSE IF x = y THEN "Equal" ELSE "Greater")
            /\ r.lt <=> LexLess(r.self_raw.val[1], r.self_raw.val[2],
                                r.other_raw.val[1], r.other_raw.val[2])
            /\ r.gt <=> LexLess(r.other_raw.val[1], r.other_raw.val[2],
                                r.self_raw.val[1], r.self_raw.val[2])

\* -3.5 was compared with -1.5: two negative values with the same fraction
C24_Witness ==
    /\ Called("fixed_cmp")
    /\ fx = Z(-229376) /\ trail[1][2] = Z(-98304)
    /\ res.val.lt
(***************************************************************************)
(* The text of a FixedPoint, read back as a signed decimal number.         *)
(***************************************************************************)
\* the number the decimal digits ds write from the i-th on, after acc (the
\* test on acc has TLC evaluate each sum before the next)
RECURSIVE ReadDecimal(_, _, _)
ReadDecimal(ds, i, acc) ==
    IF i > Len(ds) \/ Len(acc) # ZLimbs THEN acc
    ELSE ReadDecimal(ds, i + 1, ZAdd(MulSmall(acc, 10), Z(Numerals[ds[i]])))

\* out is a decimal numeral: an optional '-', digits, one '.', digits
IsDecimal(out) ==
    LET body == IF out # <<>> /\ out[1] = "-" THEN SubSeq(out, 2, Len(out)) ELSE out
    IN  /\ Cardinality({i \in 1..Len(body) : body[i] = "."}) = 1
        /\ body[1] # "." /\ body[Len(body)] # "."
        /\ \A i \in 1..Len(body) : body[i] = "." \/ body[i] \in DOMAIN Numerals

\* the decimal numeral out with its point dropped, as a signed integer: the
\* number it denotes times 10^Len(AfterPoint(out))
Unpointed(out) ==
    LET minus == out[1] = "-"
        body == IF minus THEN SubSeq(out, 2, Len(out)) ELSE out
        n == ReadDecimal(SelectSeq(body, LAMBDA c : c # "."), 1, ZZero)
    IN  IF minus THEN ZNeg(n) ELSE n

\* the decimal numeral out denotes exactly w / 65536
Denotes(out, w) ==
    /\ IsDecimal(out)
    /\ ShlLimbs(Unpointed(out), 1) = ZMul(w, Scaled(Z(1), 10, Len(AfterPoint(out))))

\* Display was called on a FixedPoint, with no precision
DisplayedFixed ==
    Called("fixed_fmt") /\ given[2] = "Display" /\ given[3].tag = "None"

\* C25: for every FixedPoint v, negative as well as non-negative, the text
\* Display writes without a precision, read as a signed decimal number, denotes
\* exactly v.raw / 65536.
C25_DisplayDenotesValue ==
    DisplayedFixed => res.tag = "Val" /\ Denotes(res.val, given[1])

\* C25 for the values that are not negative or have no fraction; a negative
\* value with the fraction f # 0 is written as its integer part rounded down,
\* then f: the text denotes (v.raw - 2 f) / 65536
C25_DisplayFloorThenFraction ==
    DisplayedFixed =>
        /\ res.tag = "Val"
        /\ IF IsNeg(given[1]) /\ Fraction # ZZero
           THEN Denotes(res.val, ZSub(given[1], ZAdd(Fraction, Fraction)))
           ELSE Denotes(res.val, given[1])

\* -1.5 (the raw word -98304) was written as "-2.5"
C25_Witness ==
    /\ DisplayedFixed /\ given[1] = Z(-98304)
    /\ res = Val(<<"-", "2", ".", "5">>)
(***************************************************************************)
(* The digit loop, pass by pass.                                           *)
(***************************************************************************)
\* the passes the loop makes at most in each radix
MostDigits(radix) ==
    CASE radix = 10 -> 16 [] radix = 2 -> 16 [] radix = 8 -> 6 [] radix = 16 -> 4

\* what the call returned is what the loop run in one piece returns
DigitsAgree ==
    op = Returned =>
        res = fmt_fractional(debug, Traits[given[2]].base, Traits[given[2]].uppercase,
                             given[1], given[3], <<>>)

\* at the test of the loop: the numerator is a product that fits 32 bits, as
\* is the one the next pass makes, and no more digits were written than the
\* radix allows
LoopInBounds ==
    op = AtTest =>
        /\ obj.numerator \div 65536 <= 65535
        /\ ZLess(ZMul(given[1], Z(Traits[given[2]].base)), Pow2(32))
        /\ ZLess(ZMul(Z(obj.numerator % 65536), Z(Traits[given[2]].base)), Pow2(32))
        /\ obj.digits_emitted <= MostDigits(Traits[given[2]].base)
        /\ obj.digits_emitted = Len(obj.out)

\* C26: the digit loop of fmt_fractional ends for every magnitude in every
\* radix, with or without a precision: the call returns a text, after at most
\* 16 passes in radix 10 and 2, 6 in radix 8 and 4 in radix 16, and no
\* numerator overflows 32 bits.
C26_LoopEnds ==
    /\ [](LoopInBounds)
    /\ [](op = Returned => res.tag = "Val")
    /\ (op = AtTest) ~> (op = Returned)

\* Fract(1) in radix 10, with no precision: the loop is at its test after 16
\* passes, the remainder 0
C26_Witness ==
    /\ op = AtTest
    /\ given = <<Z(1), "Display", None>>
    /\ obj.digits_emitted = 16 /\ obj.numerator = 0
(***************************************************************************)
(* Controls, against the events that were sent.                            *)
(***************************************************************************)
\* the last event at or before the i-th that says whether key is down (a key
\* event for it, or a lost_focus), 0 if there is none
RECURSIVE LastAbout(_, _)
LastAbout(key, i) ==
    IF i = 0 THEN 0
    ELSE IF trail[i] \in {<<"Pressed", key>>, <<"Released", key>>, <<"lost_focus", "">>}
    THEN i
    ELSE LastAbout(key, i - 1)

\* key is down after the first i events
DownAfter(key, i) ==
    LastAbout(key, i) # 0 /\ trail[LastAbout(key, i)] = <<"Pressed", key>>

\* where the current frame began: the last new_frame or lost_focus, 0 if none
RECURSIVE FrameStart(_)
FrameStart(i) ==
    IF i = 0 THEN 0
    ELSE IF trail[i][1] \in {"new_frame", "lost_focus"} THEN i
    ELSE FrameStart(i - 1)

\* key went from not pressed to pressed in the current frame
WentDown(key) ==
    \E i \in (FrameStart(Len(trail)) + 1)..Len(trail) :
       trail[i] = <<"Pressed", key>> /\ ~DownAfter(key, i - 1)

\* C27: after any events, a mapping of one key is triggered exactly when the
\* key went from not pressed to pressed since the last new_frame or lost_focus
\* (a press of a key that is down counts for nothing, and a key held across
\* new_frame is held down and not triggered), and a mapping of several keys
\* exactly when all its keys are down and one of them went down in the frame;
\* a mapping is held down exactly when all its keys are down.
C27_TriggeredOnce ==
    Called("controls") =>
        \A mapping \in KeyMapping :
           LET keys == DefaultKeys[mapping]
               down == \A i \in 1..Len(keys) : DownAfter(keys[i], Len(trail))
               went == \E i \in 1..Len(keys) : WentDown(keys[i])
           IN  /\ Controls_held_down(obj, mapping) <=> down
               /\ Controls_triggered(obj, mapping) <=>
                     IF Len(keys) = 1 THEN went ELSE down /\ went

\* Escape was pressed, a frame passed, and Escape was pressed again without
\* a release: MainMenu is held down and not triggered
C27_Witness ==
    /\ trail = <<<<"Pressed", "Escape">>, <<"new_frame", "">>, <<"Pressed", "Escape">>>>
    /\ Controls_held_down(obj, "MainMenu")
    /\ ~Controls_triggered(obj, "MainMenu")

\* a lost_focus was sent, and no press since
FocusLost ==
    \E i \in 1..Len(trail) :
       /\ trail[i][1] = "lost_focus"
       /\ \A j \in (i + 1)..Len(trail) : trail[j][1] # "Pressed"

\* C28: after lost_focus, whatever came before, and until a press arrives, no
\* input is pressed, just pressed or just released, and no mapping is held
\* down or triggered; a release that arrives meanwhile changes nothing.
C28_FocusLostClears ==
    (Called("controls") /\ FocusLost) =>
        /\ obj = [pressed |-> {}, just_pressed |-> {}, just_released |-> {}]
        /\ \A mapping \in KeyMapping :
              ~Controls_held_down(obj, mapping) /\ ~Controls_triggered(obj, mapping)

\* both keys of Exit were pressed, the focus was lost, and one of them was
\* released afterwards
C28_Witness ==
    /\ trail = <<<<"Pressed", "Escape">>, <<"Pressed", "Backspace">>,
                 <<"lost_focus", "">>, <<"Released", "Escape">>>>
    /\ obj.pressed = {}
(***************************************************************************)
(* The settings saver: what reaches the file, and how the thread ends.     *)
(***************************************************************************)
\* C29: a store that changes the settings is never lost, file writes
\* succeeding: the saver writes the most recently stored settings to the file,
\* also when the last handle is dropped after the store; so when the saver
\* thread has ended, after which nothing is written, the file holds them.
C29_StoreNeverLost ==
    (Called("saver") /\ obj.saver = "exited" /\ obj.stored /\ obj.failures = 0) =>
        obj.file = obj.data

\* while a handle is alive and no write has failed, a store that changes the
\* settings is never lost: in the end the file holds the settings stored last
C29_SavedWhileReferenced ==
    <>[]((obj.handles > 0 /\ obj.failures = 0) =>
            (obj.user = "idle" /\ obj.file = obj.data))

\* a store of the settings that are the current ones replaces nothing and
\* wakes nobody
C29_EqualStoreIdle ==
    [][\A settings \in Settings :
          (obj.user = "idle" /\ obj.data = settings /\ op' = <<"caller", "store">>
           /\ obj'.pending = obj.pending /\ obj'.user = "idle")
          => (obj'.data = obj.data /\ obj'.notify = obj.notify)]_vars

\* settings were stored, the last handle was dropped, and the saver thread
\* ended without a failed write
C29_Witness ==
    /\ obj.saver = "exited" /\ obj.stored /\ obj.failures = 0
    /\ obj.handles = 0 /\ obj.unparker = "dropped"

\* C30: once the last handle is dropped the saver thread ends: the drop of the
\* Unparker wakes it or leaves a permit, the upgrade fails and it leaves its
\* loop, so it does not wait in park for ever; and it saves at most once after
\* each sleep.
C30_SaverEnds ==
    /\ [](obj.saves_since_sleep <= 1)
    /\ [](obj.saver = "exited" => Strong(obj) = 0)
    /\ (obj.handles = 0) ~> (obj.saver = "exited")

\* the thread waited in park when the last handle was dropped, and has ended
C30_Witness ==
    /\ obj.saver = "exited" /\ op = <<"saver", "upgrade">>
    /\ obj.unparker = "dropped" /\ ~obj.notify.permit /\ obj.stores = 0
====
